---- MODULE Spec2Model ----
(***************************************************************************)
(* Viseme timeline synthesis of realtime-avatar-chat                       *)
(* (src/viseme_utils.py): the rule-based text -> phoneme extractor, the    *)
(* phoneme -> viseme frame mapping, the scaling of a timeline to a target  *)
(* duration and the point query over a timeline.                           *)
(*                                                                         *)
(* Numbers.  Times and durations are Python floats in the source.  They    *)
(* are modelled as exact rationals [n |-> numerator, d |-> denominator]    *)
(* in lowest terms with d > 0, so 0.08 is 2/25, 0.15 is 3/20 and 0.1 is    *)
(* 1/10.  Rounding error of IEEE doubles is therefore not represented.     *)
(*                                                                         *)
(* Text.  A str is a sequence of one-character strings.                    *)
(***************************************************************************)
EXTENDS Integers, Sequences, FiniteSets, TLC

\* ------------------------------------------------------------------ bounds
\* Longest text (in characters) over the core characters.
MaxLen == 3
\* Longest text over all the characters tried.
MaxShort == 2
\* Longest phoneme list handed directly to phonemes_to_visemes.
MaxPhonemes == 2
\* Number of create_viseme_timeline calls followed on the shared mapper.
MaxCalls == 2

\* --------------------------------------------------------------- rationals
RECURSIVE GCD(_, _)
GCD(a, b) == IF b = 0 THEN a ELSE GCD(b, a % b)

Abs(x) == IF x < 0 THEN -x ELSE x

\* n/d in lowest terms, denominator positive (d # 0).
Rat(n, d) ==
    LET g == GCD(Abs(n), Abs(d))
        s == IF d < 0 THEN -1 ELSE 1
    IN  [n |-> (s * n) \div g, d |-> (s * d) \div g]

RZero == [n |-> 0, d |-> 1]
ROne  == [n |-> 1, d |-> 1]

RAdd(x, y) == Rat(x.n * y.d + y.n * x.d, x.d * y.d)
RMul(x, y) == Rat(x.n * y.n, x.d * y.d)
\* x / y for y # 0
RDiv(x, y) == Rat(x.n * y.d, x.d * y.n)
RLt(x, y)  == x.n * y.d < y.n * x.d
RLe(x, y)  == x.n * y.d <= y.n * x.d

RECURSIVE RSum(_)
RSum(s) == IF s = <<>> THEN RZero ELSE RAdd(RSum(SubSeq(s, 1, Len(s) - 1)), s[Len(s)])

\* ------------------------------------------------------------ static tables
\* VisemeMapper.VISEME_MAPPING: category id -> name and phoneme list.
VISEME_MAPPING ==
       0 :> [name |-> "Silence", phonemes |-> <<"sil", "pau", "sp">>] @@
       1 :> [name |-> "Bilabial_pbm", phonemes |-> <<"p", "b", "m", "em", "en">>] @@
       2 :> [name |-> "Labiodental_fv", phonemes |-> <<"f", "v">>] @@
       3 :> [name |-> "Dental_th", phonemes |-> <<"th">>] @@
       4 :> [name |-> "Alveolar_tdn", phonemes |-> <<"t", "d", "n", "s", "z", "l">>] @@
       5 :> [name |-> "Palatal", phonemes |-> <<"y">>] @@
       6 :> [name |-> "Velar_kgng", phonemes |-> <<"k", "g", "ng">>] @@
       7 :> [name |-> "Palato_alveolar_chj", phonemes |-> <<"ch", "jh">>] @@
       8 :> [name |-> "Palato_alveolar_fricative_shzh", phonemes |-> <<"sh", "zh">>] @@
       9 :> [name |-> "Approximant_yr", phonemes |-> <<"y", "r">>] @@
       10 :> [name |-> "Open_vowel_a", phonemes |-> <<"a", "aa", "ae", "ah">>] @@
       11 :> [name |-> "Mid_vowel_e", phonemes |-> <<"e", "eh", "er", "ax", "axr">>] @@
       12 :> [name |-> "Close-front_i", phonemes |-> <<"i", "ih", "iy">>] @@
       13 :> [name |-> "Close-mid_o", phonemes |-> <<"o", "ow", "oy">>] @@
       14 :> [name |-> "Close-back_u", phonemes |-> <<"u", "uh", "uw">>] @@
       15 :> [name |-> "Labial_velar_w", phonemes |-> <<"w">>] @@
       16 :> [name |-> "Mid_front_vowel_eehay", phonemes |-> <<"e", "eh", "ay">>] @@
       17 :> [name |-> "Mid_back_vowel_oohoi", phonemes |-> <<"o", "oh", "oi">>] @@
       18 :> [name |-> "Schwa_eruh", phonemes |-> <<"er", "uh", "schwa">>]

\* The category ids in dict (insertion) order.
VisemeIds == 0 .. 18

\* VisemeMapper.PHONEME_DURATIONS, in seconds.
PHONEME_DURATIONS ==
    [vowels     |-> Rat(15, 100),
     consonants |-> Rat(8, 100),
     silence    |-> Rat(1, 10),
     default    |-> Rat(12, 100)]

\* self.viseme_images as VisemeMapper.__init__ fills it.
InitVisemeImages ==
       0 :> "/static/viseme_test_00_Silence.jpg" @@
       1 :> "/static/viseme_test_01_Bilabial_pbm.jpg" @@
       2 :> "/static/viseme_test_02_Labiodental_fv.jpg" @@
       3 :> "/static/viseme_test_03_Dental_th.jpg" @@
       4 :> "/static/viseme_test_04_Alveolar_tdn.jpg" @@
       5 :> "/static/viseme_test_05_Palatal.jpg" @@
       6 :> "/static/viseme_test_06_Velar_kgng.jpg" @@
       7 :> "/static/viseme_test_07_Palato_alveolar_chj.jpg" @@
       8 :> "/static/viseme_test_08_Palato_alveolar_fricative_shzh.jpg" @@
       9 :> "/static/viseme_test_09_Approximant_yr.jpg" @@
       10 :> "/static/viseme_test_10_Open_vowel_a.jpg" @@
       11 :> "/static/viseme_test_11_Mid_vowel_e.jpg" @@
       12 :> "/static/viseme_test_12_Close-front_i.jpg" @@
       13 :> "/static/viseme_test_13_Close-mid_o.jpg" @@
       14 :> "/static/viseme_test_14_Close-back_u.jpg" @@
       15 :> "/static/viseme_test_15_Labial_velar_w.jpg" @@
       16 :> "/static/viseme_test_16_Mid_front_vowel_eehay.jpg" @@
       17 :> "/static/viseme_test_17_Mid_back_vowel_oohoi.jpg" @@
       18 :> "/static/viseme_test_18_Schwa_eruh.jpg"

\* Mutant: a phoneme already registered keeps its first category.
Register_FirstWins(map, id) ==
    LET ps == {VISEME_MAPPING[id].phonemes[i] :
                  i \in 1 .. Len(VISEME_MAPPING[id].phonemes)}
    IN  [p \in (DOMAIN map) \cup ps |-> IF p \in DOMAIN map THEN map[p] ELSE id]

\* The reverse map after registering category id: every phoneme of the
\* category is (re)assigned to id, so a later category overwrites an earlier.
Register(map, id) ==
    LET ps == {VISEME_MAPPING[id].phonemes[i] :
                  i \in 1 .. Len(VISEME_MAPPING[id].phonemes)}
    IN  [p \in (DOMAIN map) \cup ps |-> IF p \in ps THEN id ELSE map[p]]

RECURSIVE RegisterUpTo(_)
RegisterUpTo(id) ==
    IF id < 0 THEN [p \in {} |-> 0] ELSE Register(RegisterUpTo(id - 1), id)

\* self.phoneme_to_viseme as VisemeMapper.__init__ builds it.
InitPhonemeToViseme == RegisterUpTo(18)

\* ------------------------------------------------------- text_to_phonemes
\* The curated word dictionary of text_to_phonemes.
word_phonemes ==
       <<"h", "e", "l", "l", "o">> :> <<"h", "eh", "l", "ow">> @@
       <<"h", "i">> :> <<"h", "ay">> @@
       <<"h", "o", "w">> :> <<"h", "aw">> @@
       <<"a", "r", "e">> :> <<"aa", "r">> @@
       <<"y", "o", "u">> :> <<"y", "uw">> @@
       <<"d", "o", "i", "n", "g">> :> <<"d", "uw", "ih", "ng">> @@
       <<"t", "o", "d", "a", "y">> :> <<"t", "uh", "d", "ey">> @@
       <<"w", "h", "a", "t">> :> <<"w", "ah", "t">> @@
       <<"i", "s">> :> <<"ih", "z">> @@
       <<"y", "o", "u", "r">> :> <<"y", "er">> @@
       <<"n", "a", "m", "e">> :> <<"n", "ey", "m">> @@
       <<"t", "h", "a", "n", "k">> :> <<"th", "ae", "ng", "k">> @@
       <<"t", "h", "a", "n", "k", "s">> :> <<"th", "ae", "ng", "k", "s">> @@
       <<"g", "o", "o", "d">> :> <<"g", "uh", "d">> @@
       <<"m", "o", "r", "n", "i", "n", "g">> :> <<"m", "er", "n", "ih", "ng">> @@
       <<"a", "f", "t", "e", "r", "n", "o", "o", "n">> :> <<"ae", "f", "t", "er", "n", "uw", "n">> @@
       <<"e", "v", "e", "n", "i", "n", "g">> :> <<"iy", "v", "n", "ih", "ng">> @@
       <<"n", "i", "g", "h", "t">> :> <<"n", "ay", "t">> @@
       <<"b", "y", "e">> :> <<"b", "ay">> @@
       <<"g", "o", "o", "d", "b", "y", "e">> :> <<"g", "uh", "d", "b", "ay">> @@
       <<"p", "l", "e", "a", "s", "e">> :> <<"p", "l", "iy", "z">> @@
       <<"s", "o", "r", "r", "y">> :> <<"s", "aa", "r", "iy">> @@
       <<"y", "e", "s">> :> <<"y", "eh", "s">> @@
       <<"n", "o">> :> <<"n", "ow">> @@
       <<"o", "k", "a", "y">> :> <<"ow", "k", "ey">> @@
       <<"o", "k">> :> <<"ow", "k">> @@
       <<"s", "u", "r", "e">> :> <<"sh", "er">> @@
       <<"m", "a", "y", "b", "e">> :> <<"m", "ey", "b", "iy">> @@
       <<"t", "h", "i", "n", "k">> :> <<"th", "ih", "ng", "k">> @@
       <<"k", "n", "o", "w">> :> <<"n", "ow">> @@
       <<"s", "e", "e">> :> <<"s", "iy">> @@
       <<"l", "o", "o", "k">> :> <<"l", "uh", "k">> @@
       <<"h", "e", "a", "r">> :> <<"h", "ih", "r">> @@
       <<"f", "e", "e", "l">> :> <<"f", "iy", "l">> @@
       <<"w", "a", "n", "t">> :> <<"w", "ah", "n", "t">> @@
       <<"n", "e", "e", "d">> :> <<"n", "iy", "d">> @@
       <<"l", "i", "k", "e">> :> <<"l", "ay", "k">> @@
       <<"l", "o", "v", "e">> :> <<"l", "ah", "v">> @@
       <<"h", "a", "p", "p", "y">> :> <<"h", "ae", "p", "iy">> @@
       <<"s", "a", "d">> :> <<"s", "ae", "d">> @@
       <<"a", "n", "g", "r", "y">> :> <<"ae", "ng", "g", "r", "iy">> @@
       <<"t", "i", "r", "e", "d">> :> <<"t", "ay", "er", "d">> @@
       <<"e", "x", "c", "i", "t", "e", "d">> :> <<"ih", "k", "s", "ay", "t", "ih", "d">> @@
       <<"n", "e", "r", "v", "o", "u", "s">> :> <<"n", "er", "v", "ah", "s">> @@
       <<"w", "o", "r", "r", "i", "e", "d">> :> <<"w", "er", "iy", "d">> @@
       <<"c", "a", "l", "m">> :> <<"k", "aa", "m">> @@
       <<"r", "e", "l", "a", "x", "e", "d">> :> <<"r", "ih", "l", "ae", "k", "s", "t">>

LowerLetters ==
    {"a", "b", "c", "d", "e", "f", "g", "h", "i", "j", "k", "l", "m",
     "n", "o", "p", "q", "r", "s", "t", "u", "v", "w", "x", "y", "z"}
Digits == {"0", "1", "2", "3", "4", "5", "6", "7", "8", "9"}

\* str.lower() on the upper-case letters; every other character is kept.
UpperToLower ==
    "A" :> "a" @@ "B" :> "b" @@ "C" :> "c" @@ "D" :> "d" @@ "E" :> "e" @@
    "F" :> "f" @@ "G" :> "g" @@ "H" :> "h" @@ "I" :> "i" @@ "J" :> "j" @@
    "K" :> "k" @@ "L" :> "l" @@ "M" :> "m" @@ "N" :> "n" @@ "O" :> "o" @@
    "P" :> "p" @@ "Q" :> "q" @@ "R" :> "r" @@ "S" :> "s" @@ "T" :> "t" @@
    "U" :> "u" @@ "V" :> "v" @@ "W" :> "w" @@ "X" :> "x" @@ "Y" :> "y" @@
    "Z" :> "z"

LowerChar(c) == IF c \in DOMAIN UpperToLower THEN UpperToLower[c] ELSE c

\* text.lower()
Lower(text) == [i \in 1 .. Len(text) |-> LowerChar(text[i])]

\* The class \w of the word pattern: letters, digits and the underscore.
IsWordChar(c) ==
    c \in LowerLetters \cup (DOMAIN UpperToLower) \cup Digits \cup {"_"}

\* re.findall(r'\b\w+\b', text): the maximal runs of word characters, in
\* order.  cur is the run being read (empty between words).
RECURSIVE FindWordsFrom(_, _, _)
FindWordsFrom(text, i, cur) ==
    IF i > Len(text)
    THEN IF cur = <<>> THEN <<>> ELSE <<cur>>
    ELSE IF IsWordChar(text[i])
         THEN FindWordsFrom(text, i + 1, Append(cur, text[i]))
         ELSE (IF cur = <<>> THEN <<>> ELSE <<cur>>)
                 \o FindWordsFrom(text, i + 1, <<>>)

\* Mutant: the words are cut str.split-style at every non-word character, so
\* empty words are kept.
RECURSIVE SplitFrom(_, _, _)
SplitFrom(text, i, cur) ==
    IF i > Len(text) THEN <<cur>>
    ELSE IF IsWordChar(text[i])
         THEN SplitFrom(text, i + 1, Append(cur, text[i]))
         ELSE <<cur>> \o SplitFrom(text, i + 1, <<>>)

FindWords_Split(text) == SplitFrom(text, 1, <<>>)

FindWords(text) == FindWordsFrom(text, 1, <<>>)

vowel_map ==
    "a" :> "ae" @@ "e" :> "eh" @@ "i" :> "ih" @@ "o" :> "ah" @@ "u" :> "ah"

consonant_map ==
    "b" :> "b" @@ "c" :> "k" @@ "d" :> "d" @@ "f" :> "f" @@ "g" :> "g" @@
    "h" :> "h" @@ "j" :> "jh" @@ "k" :> "k" @@ "l" :> "l" @@ "m" :> "m" @@
    "n" :> "n" @@ "p" :> "p" @@ "q" :> "k" @@ "r" :> "r" @@ "s" :> "s" @@
    "t" :> "t" @@ "v" :> "v" @@ "w" :> "w" @@ "x" :> "k" @@ "y" :> "y" @@
    "z" :> "z"

VowelLetters == {"a", "e", "i", "o", "u"}
ConsonantLetters == LowerLetters \ VowelLetters

\* Mutant: a character that is neither a vowel nor a consonant letter appends
\* the silence marker.
CharPhonemes_SilenceForUnknown(c) ==
    IF c \in VowelLetters
    THEN <<IF c \in DOMAIN vowel_map THEN vowel_map[c] ELSE "ah">>
    ELSE IF c \in ConsonantLetters
         THEN <<IF c \in DOMAIN consonant_map THEN consonant_map[c] ELSE "sil">>
         ELSE <<"sil">>

\* The phonemes one character of an unknown word appends: one for a vowel
\* or a consonant letter, none for any other character (neither branch of
\* the if/elif is taken).
CharPhonemes(c) ==
    IF c \in VowelLetters
    THEN <<IF c \in DOMAIN vowel_map THEN vowel_map[c] ELSE "ah">>
    ELSE IF c \in ConsonantLetters
         THEN <<IF c \in DOMAIN consonant_map THEN consonant_map[c] ELSE "sil">>
         ELSE <<>>

RECURSIVE LetterPhonemes(_)
LetterPhonemes(word) ==
    IF word = <<>> THEN <<>>
    ELSE CharPhonemes(Head(word)) \o LetterPhonemes(Tail(word))

\* Mutant: the dictionary is not consulted; every word is spelled out.
WordPhonemes_LettersOnly(word) == LetterPhonemes(word) \o <<"sil">>

\* What one word appends: its dictionary entry or the letter fallback,
\* then the silence marker.
WordPhonemes(word) ==
    (IF word \in DOMAIN word_phonemes
     THEN word_phonemes[word]
     ELSE LetterPhonemes(word)) \o <<"sil">>

RECURSIVE AllWordPhonemes(_)
AllWordPhonemes(words) ==
    IF words = <<>> THEN <<>>
    ELSE WordPhonemes(Head(words)) \o AllWordPhonemes(Tail(words))

\* Mutant: every trailing silence marker is removed, not one.
RECURSIVE StripTrailingSilence_All(_)
StripTrailingSilence_All(phonemes) ==
    IF phonemes # <<>> /\ phonemes[Len(phonemes)] = "sil"
    THEN StripTrailingSilence_All(SubSeq(phonemes, 1, Len(phonemes) - 1))
    ELSE phonemes

\* "Remove trailing silence": one marker at most.
StripTrailingSilence(phonemes) ==
    IF phonemes # <<>> /\ phonemes[Len(phonemes)] = "sil"
    THEN SubSeq(phonemes, 1, Len(phonemes) - 1)
    ELSE phonemes

text_to_phonemes(text) ==
    StripTrailingSilence(AllWordPhonemes(FindWords(Lower(text))))

\* ---------------------------------------------------- phonemes_to_visemes
\* A VisemeFrame.
Frame(id, name, image, start, dur) ==
    [viseme_id   |-> id,
     viseme_name |-> name,
     image_path  |-> image,
     start_time  |-> start,
     duration    |-> dur,
     intensity   |-> ROne]

\* Mutant: a lookup with -1 as the "not found" default.
VisemeIdOf_NoDefault(p2v, phoneme) ==
    IF phoneme \in DOMAIN p2v THEN p2v[phoneme] ELSE -1

\* self.phoneme_to_viseme.get(phoneme, 0)
VisemeIdOf(p2v, phoneme) ==
    IF phoneme \in DOMAIN p2v THEN p2v[phoneme] ELSE 0

\* The hard-coded vowel list of the duration rule.
VowelPhonemes ==
    {"a", "aa", "ae", "ah", "e", "eh", "i", "ih", "o", "ow", "u", "uh"}

\* Mutant: the silence marker takes no time.
PhonemeDuration_ZeroSilence(phoneme) ==
    IF phoneme \in VowelPhonemes THEN PHONEME_DURATIONS.vowels
    ELSE IF phoneme = "sil" THEN RZero
    ELSE PHONEME_DURATIONS.consonants

\* "Determine duration based on phoneme type"
PhonemeDuration(phoneme) ==
    IF phoneme \in VowelPhonemes THEN PHONEME_DURATIONS.vowels
    ELSE IF phoneme = "sil" THEN PHONEME_DURATIONS.silence
    ELSE PHONEME_DURATIONS.consonants

\* A KeyError while a frame is built: VISEME_MAPPING[viseme_id] or the
\* eagerly evaluated default self.viseme_images[0] is missing.
FrameRaises(images, id) ==
    id \notin DOMAIN VISEME_MAPPING \/ 0 \notin DOMAIN images

\* self.viseme_images.get(viseme_id, self.viseme_images[0])
ImageOf(images, id) == IF id \in DOMAIN images THEN images[id] ELSE images[0]

\* The loop of phonemes_to_visemes from phoneme i on; acc holds the frames
\* appended so far and current_time the running sum of their durations.
RECURSIVE FramesFrom(_, _, _, _, _, _)
FramesFrom(p2v, images, phonemes, i, current_time, acc) ==
    IF i > Len(phonemes) THEN [raised |-> FALSE, frames |-> acc]
    ELSE LET id  == VisemeIdOf(p2v, phonemes[i])
             dur == PhonemeDuration(phonemes[i])
         IN  IF FrameRaises(images, id)
             THEN [raised |-> TRUE, frames |-> <<>>]
             ELSE FramesFrom(p2v, images, phonemes, i + 1,
                             RAdd(current_time, dur),
                             Append(acc, Frame(id, VISEME_MAPPING[id].name,
                                               ImageOf(images, id),
                                               current_time, dur)))

\* Mutant: a frame whose viseme is that of the frame before it is merged
\* into that frame.
RECURSIVE MergeAdjacent(_)
MergeAdjacent(frames) ==
    IF Len(frames) < 2 THEN frames
    ELSE LET init == MergeAdjacent(SubSeq(frames, 1, Len(frames) - 1))
             last == frames[Len(frames)]
             prev == init[Len(init)]
         IN  IF prev.viseme_id = last.viseme_id
             THEN [init EXCEPT ![Len(init)].duration =
                                   RAdd(prev.duration, last.duration)]
             ELSE Append(init, last)

phonemes_to_visemes_Merged(p2v, images, phonemes) ==
    LET got == FramesFrom(p2v, images, phonemes, 1, RZero, <<>>)
    IN  [raised |-> got.raised, frames |-> MergeAdjacent(got.frames)]

phonemes_to_visemes(p2v, images, phonemes) ==
    FramesFrom(p2v, images, phonemes, 1, RZero, <<>>)

text_to_visemes(p2v, images, text) ==
    phonemes_to_visemes(p2v, images, text_to_phonemes(text))

\* ---------------------------------------------------- get_viseme_for_time
\* The scan of get_viseme_for_time from frame i on: the position (1-based)
\* of the frame returned, 0 for None.
RECURSIVE ScanFrom(_, _, _)
ScanFrom(viseme_frames, current_time, i) ==
    IF i > Len(viseme_frames) THEN 0
    ELSE IF /\ RLe(viseme_frames[i].start_time, current_time)
            /\ RLt(current_time, RAdd(viseme_frames[i].start_time,
                                      viseme_frames[i].duration))
         THEN i
         ELSE ScanFrom(viseme_frames, current_time, i + 1)

\* Mutant: the start of a frame is excluded (start_time < current_time).
RECURSIVE ScanFrom_OpenStart(_, _, _)
ScanFrom_OpenStart(viseme_frames, current_time, i) ==
    IF i > Len(viseme_frames) THEN 0
    ELSE IF /\ RLt(viseme_frames[i].start_time, current_time)
            /\ RLt(current_time, RAdd(viseme_frames[i].start_time,
                                      viseme_frames[i].duration))
         THEN i
         ELSE ScanFrom_OpenStart(viseme_frames, current_time, i + 1)

get_viseme_for_time_OpenStart(viseme_frames, current_time) ==
    ScanFrom_OpenStart(viseme_frames, current_time, 1)

\* Mutant: the end of a frame is included (current_time <= start + duration).
RECURSIVE ScanFrom_ClosedEnd(_, _, _)
ScanFrom_ClosedEnd(viseme_frames, current_time, i) ==
    IF i > Len(viseme_frames) THEN 0
    ELSE IF /\ RLe(viseme_frames[i].start_time, current_time)
            /\ RLe(current_time, RAdd(viseme_frames[i].start_time,
                                      viseme_frames[i].duration))
         THEN i
         ELSE ScanFrom_ClosedEnd(viseme_frames, current_time, i + 1)

get_viseme_for_time_ClosedEnd(viseme_frames, current_time) ==
    ScanFrom_ClosedEnd(viseme_frames, current_time, 1)

get_viseme_for_time(viseme_frames, current_time) ==
    ScanFrom(viseme_frames, current_time, 1)

\* ------------------------------------------------- create_viseme_timeline
Durations(frames) == [i \in 1 .. Len(frames) |-> frames[i].duration]

\* sum(frame.duration for frame in viseme_frames)
VisemeDuration(frames) == RSum(Durations(frames))

\* Mutant: the quotient is taken the wrong way round.
ScaleFactor_Inverted(total_duration, viseme_duration) ==
    IF RLt(RZero, viseme_duration) /\ total_duration.n # 0
    THEN RDiv(viseme_duration, total_duration)
    ELSE ROne

\* Mutant: a target that is not positive is refused and the frames are left
\* unscaled.
ScaleFactor_PositiveTargetOnly(total_duration, viseme_duration) ==
    IF RLt(RZero, viseme_duration) /\ RLt(RZero, total_duration)
    THEN RDiv(total_duration, viseme_duration)
    ELSE ROne

\* Mutant: only a total of zero is kept from the division.
ScaleFactor_NonZeroOnly(total_duration, viseme_duration) ==
    IF viseme_duration.n # 0
    THEN RDiv(total_duration, viseme_duration)
    ELSE ROne

\* total_duration / viseme_duration if viseme_duration > 0 else 1.0
ScaleFactor(total_duration, viseme_duration) ==
    IF RLt(RZero, viseme_duration)
    THEN RDiv(total_duration, viseme_duration)
    ELSE ROne

\* Mutant: the factor is assigned, not multiplied in (= for *=).
ScaleDurations_Assigned(frames, scale_factor) ==
    [i \in 1 .. Len(frames) |-> [frames[i] EXCEPT !.duration = scale_factor]]

\* "Scale all timing": frame.duration *= scale_factor
ScaleDurations(frames, scale_factor) ==
    [i \in 1 .. Len(frames) |->
        [frames[i] EXCEPT !.duration = RMul(@, scale_factor)]]

\* Mutant: the start times are left as phonemes_to_visemes set them.
UpdateStartTimes_Skipped(frames) == frames

\* "Update start times": frame.start_time is the running sum of the
\* durations of the frames before it.
UpdateStartTimes(frames) ==
    [i \in 1 .. Len(frames) |->
        [frames[i] EXCEPT
            !.start_time = RSum(SubSeq(Durations(frames), 1, i - 1))]]

\* The value returned (frames), whether an exception escaped (raised), the
\* frames text_to_visemes handed over (unscaled) and whether the scaling
\* loops ran (scaled).
create_viseme_timeline(p2v, images, text, total_duration) ==
    LET got == text_to_visemes(p2v, images, text)
    IN  IF got.raised
        THEN [raised |-> TRUE, frames |-> <<>>, unscaled |-> <<>>,
              scaled |-> FALSE]
        ELSE IF got.frames = <<>>
        THEN [raised |-> FALSE, frames |-> <<>>, unscaled |-> <<>>,
              scaled |-> FALSE]
        ELSE LET scale_factor ==
                     ScaleFactor(total_duration, VisemeDuration(got.frames))
             IN  [raised   |-> FALSE,
                  frames   |-> UpdateStartTimes(
                                   ScaleDurations(got.frames, scale_factor)),
                  unscaled |-> got.frames,
                  scaled   |-> TRUE]

\* ------------------------------------------------------------- input sets
\* Core characters of the texts tried: two letters that spell the
\* dictionary word "hi" (and, as fallback letters, a consonant and a
\* vowel), a digit (a word character with no phoneme) and a blank.
CoreChars == {"h", "i", "4", " "}

\* All characters tried: also upper-case letters and a punctuation mark.
Chars == CoreChars \cup {"H", "I", "!"}

Texts ==
    (UNION {[1 .. n -> CoreChars] : n \in 0 .. MaxLen})
        \cup (UNION {[1 .. n -> Chars] : n \in 0 .. MaxShort})

\* Target durations tried, in seconds: negative, zero and two positive.
TargetDurations == {Rat(-1, 1), RZero, ROne, Rat(3, 2)}

Range(f) == {f[i] : i \in DOMAIN f}

\* Every phoneme of the category table and of the word dictionary, and two
\* strings that are neither.
PhonemeSymbols ==
    (DOMAIN InitPhonemeToViseme)
        \cup UNION {Range(word_phonemes[w]) : w \in DOMAIN word_phonemes}
        \cup {"xyz", ""}

\* Symbols of the longer phoneme lists: the silence marker, two symbols of
\* one category (p, b), a listed vowel, an unlisted vowel and a symbol of
\* no category.
ShortSymbols == {"sil", "p", "b", "ah", "ay", "h"}

\* Phoneme lists handed directly to phonemes_to_visemes.
PhonemeLists ==
    {<<p>> : p \in PhonemeSymbols}
        \cup UNION {[1 .. n -> ShortSymbols] : n \in 0 .. MaxPhonemes}

\* Texts of the calls other callers make on the shared mapper.
OtherTexts == {<<"h", "i">>, <<"4", " ", "i", "h">>}
OtherDurations == {ROne}

\* ------------------------------------------------------------------ state
VARIABLES
    phoneme_to_viseme,  \* self.phoneme_to_viseme of the shared viseme_mapper
    viseme_images,      \* self.viseme_images of the shared viseme_mapper
    text,               \* the caller's text
    total_duration,     \* the caller's target duration
    phonemes,           \* the caller's phoneme list
    phonemes_out,       \* text_to_phonemes: the list returned
    op,                 \* the most recent call
    viseme_frames,      \* the frame list the most recent call returned or queried
    unscaled_frames,    \* create_viseme_timeline: the frames before scaling
    scaled,             \* create_viseme_timeline: the scaling loops ran
    current_time,       \* get_viseme_for_time: the time asked for
    found,              \* get_viseme_for_time: position of the frame returned, 0 for None
    raised,             \* the most recent call raised
    calls,              \* create_viseme_timeline calls of this caller so far
    first_timeline,     \* what the first of them returned
    heap,               \* the VisemeFrame objects created, by reference
    invocations,        \* the create_viseme_timeline invocations in progress
    response,           \* what generate_audio_with_visemes returned, if the
                        \* most recent call was one
    current_user,       \* app.py: the module-global current_user
    session,            \* app.py: the Flask session of each client
    users,              \* database.py: the rows of table users, id = position
    conversations,      \* database.py: the rows of table conversations
    user_updates,       \* database.py: the update_user calls made
    handlers,           \* app.py: the /api/chat request each client has running
    clock,              \* database.py: CURRENT_TIMESTAMP, in seconds
    history,            \* database.py: what get_recent_conversations returned
    last_request        \* app.py: the endpoint called last and its answer

vars ==
    <<phoneme_to_viseme, viseme_images, text, total_duration, phonemes,
      phonemes_out, op,
      viseme_frames, unscaled_frames, scaled, current_time, found, raised,
      calls, first_timeline, heap, invocations, response,
      current_user, session, users, conversations, user_updates, handlers,
      clock, history, last_request>>

\* The state of the web application and its database.
app_vars ==
    <<current_user, session, users, conversations, user_updates, handlers,
      clock, history, last_request>>

\* A session without keys.
NoSession == [key \in {} |-> ""]

\* The value of last_request before any request.
NoRequest ==
    [endpoint |-> "none", client |-> 0, status |-> 0, had_session |-> FALSE,
     before |-> "absent", arg |-> ""]

\* The value of history before any get_recent_conversations call.
NoHistory == [called |-> FALSE, user_id |-> 0, limit |-> 0, rows |-> <<>>]

\* The web application before any request: no user, no session, empty
\* tables.
AppIdle ==
    /\ current_user = <<>>
    /\ session = <<>>
    /\ users = <<>>
    /\ conversations = <<>>
    /\ user_updates = <<>>
    /\ handlers = <<>>
    /\ clock = 0
    /\ history = NoHistory
    /\ last_request = NoRequest

\* The value of a frame-list variable that holds no list.
NoFrames == <<>>

\* The value of response when the most recent call was of another method.
NoResponse ==
    [kind |-> "unset", audio |-> "", viseme_frames |-> <<>>,
     estimated_duration |-> RZero]

\* The most recent call left the caller a frame list (it may be empty).
HasFrames ==
    /\ op \in {"phonemes_to_visemes", "text_to_visemes",
               "create_viseme_timeline", "get_viseme_for_time"}
    /\ ~raised

\* The state after `viseme_mapper = VisemeMapper()`; the caller holds either
\* a text and a target duration or a phoneme list.
Init ==
    /\ phoneme_to_viseme = InitPhonemeToViseme
    /\ viseme_images = InitVisemeImages
    /\ \/ /\ text \in Texts
          /\ total_duration \in TargetDurations
          /\ phonemes = <<>>
       \/ /\ text = <<>>
          /\ total_duration = RZero
          /\ phonemes \in PhonemeLists \ {<<>>}
    /\ op = "init"
    /\ phonemes_out = <<>>
    /\ viseme_frames = NoFrames
    /\ unscaled_frames = NoFrames
    /\ scaled = FALSE
    /\ current_time = RZero
    /\ found = 0
    /\ raised = FALSE
    /\ calls = 0
    /\ first_timeline = NoFrames
    /\ heap = <<>>
    /\ invocations = <<>>
    /\ response = NoResponse
    /\ AppIdle

\* Mutant: a phoneme looked up and not found is memoised in the reverse map,
\* under the id of the category registered last.
LookupEffect_Memoised(p2v, phs) ==
    [p \in (DOMAIN p2v) \cup Range(phs) |->
        IF p \in DOMAIN p2v THEN p2v[p] ELSE 18]

\* What a lookup of the phonemes leaves in self.phoneme_to_viseme: dict.get
\* inserts nothing.
LookupEffect(p2v, phs) == p2v

\* phonemes = viseme_mapper.text_to_phonemes(text)
TextToPhonemes ==
    /\ phonemes_out' = text_to_phonemes(text)
    /\ op' = "text_to_phonemes"
    /\ viseme_frames' = NoFrames
    /\ unscaled_frames' = NoFrames
    /\ scaled' = FALSE
    /\ current_time' = RZero
    /\ found' = 0
    /\ raised' = FALSE
    /\ response' = NoResponse
    /\ UNCHANGED <<app_vars, heap, invocations, phoneme_to_viseme, viseme_images, text, total_duration,
                   phonemes, calls, first_timeline>>

\* viseme_frames = viseme_mapper.phonemes_to_visemes(phonemes)
PhonemesToVisemes ==
    LET got == phonemes_to_visemes(phoneme_to_viseme, viseme_images, phonemes)
    IN  /\ viseme_frames' = IF got.raised THEN NoFrames ELSE got.frames
        /\ raised' = got.raised
        /\ op' = "phonemes_to_visemes"
        /\ phoneme_to_viseme' = LookupEffect(phoneme_to_viseme, phonemes)
        /\ unscaled_frames' = NoFrames
        /\ scaled' = FALSE
        /\ current_time' = RZero
        /\ found' = 0
        /\ phonemes_out' = <<>>
        /\ response' = NoResponse
        /\ UNCHANGED <<app_vars, heap, invocations, viseme_images, text, total_duration, phonemes, calls,
                       first_timeline>>

\* viseme_frames = viseme_mapper.text_to_visemes(text)
TextToVisemes ==
    LET got == text_to_visemes(phoneme_to_viseme, viseme_images, text)
    IN  /\ viseme_frames' = IF got.raised THEN NoFrames ELSE got.frames
        /\ raised' = got.raised
        /\ op' = "text_to_visemes"
        /\ phoneme_to_viseme' =
               LookupEffect(phoneme_to_viseme, text_to_phonemes(text))
        /\ unscaled_frames' = NoFrames
        /\ scaled' = FALSE
        /\ current_time' = RZero
        /\ found' = 0
        /\ phonemes_out' = <<>>
        /\ response' = NoResponse
        /\ UNCHANGED <<app_vars, heap, invocations, viseme_images, text, total_duration, phonemes, calls,
                       first_timeline>>

\* viseme_frames = viseme_mapper.create_viseme_timeline(text, total_duration)
CreateVisemeTimeline ==
    /\ calls < MaxCalls
    /\ LET got == create_viseme_timeline(phoneme_to_viseme, viseme_images,
                                         text, total_duration)
       IN  /\ viseme_frames' = IF got.raised THEN NoFrames ELSE got.frames
           /\ unscaled_frames' = IF got.raised THEN NoFrames ELSE got.unscaled
           /\ scaled' = got.scaled
           /\ raised' = got.raised
           /\ first_timeline' = IF calls = 0 THEN viseme_frames'
                                ELSE first_timeline
    /\ calls' = calls + 1
    /\ op' = "create_viseme_timeline"
    /\ phoneme_to_viseme' =
           LookupEffect(phoneme_to_viseme, text_to_phonemes(text))
    /\ current_time' = RZero
    /\ found' = 0
    /\ phonemes_out' = <<>>
    /\ response' = NoResponse
    /\ UNCHANGED <<app_vars, heap, invocations, viseme_images, text, total_duration, phonemes>>

\* Another caller's create_viseme_timeline(t, d) on the shared mapper; what
\* it returns goes to that caller.
OtherCreateVisemeTimeline(t, d) ==
    /\ op' = "other_create_viseme_timeline"
    /\ phoneme_to_viseme' = LookupEffect(phoneme_to_viseme, text_to_phonemes(t))
    /\ viseme_frames' = NoFrames
    /\ unscaled_frames' = NoFrames
    /\ scaled' = FALSE
    /\ current_time' = RZero
    /\ found' = 0
    /\ raised' = FALSE
    /\ phonemes_out' = <<>>
    /\ response' = NoResponse
    /\ UNCHANGED <<app_vars, heap, invocations, viseme_images, text, total_duration, phonemes, calls,
                   first_timeline>>

\* Times worth asking for on a frame list: every frame's start, middle and
\* end, a time before 0 and a time past the end.
QueryTimes(frames) ==
    {Rat(-1, 2)}
        \cup {frames[i].start_time : i \in 1 .. Len(frames)}
        \cup {RAdd(frames[i].start_time, frames[i].duration) :
                 i \in 1 .. Len(frames)}
        \cup {RAdd(frames[i].start_time,
                   RMul(frames[i].duration, Rat(1, 2))) : i \in 1 .. Len(frames)}
        \cup {RAdd(VisemeDuration(frames), ROne)}

\* frame = viseme_mapper.get_viseme_for_time(viseme_frames, t)
GetVisemeForTime(t) ==
    /\ HasFrames
    /\ current_time' = t
    /\ found' = get_viseme_for_time(viseme_frames, t)
    /\ op' = "get_viseme_for_time"
    /\ raised' = FALSE
    /\ phonemes_out' = <<>>
    /\ response' = NoResponse
    /\ UNCHANGED <<app_vars, heap, invocations, phoneme_to_viseme, viseme_images, text, total_duration,
                   phonemes, viseme_frames, unscaled_frames, scaled, calls,
                   first_timeline>>

\* ------------------------------------------- generate_audio_with_visemes
\* The characters str.split() separates at.
IsSpace(c) == c \in {" ", "\t", "\n"}

\* text.split(): the maximal runs of characters that are not whitespace.
RECURSIVE TokensFrom(_, _, _)
TokensFrom(t, i, cur) ==
    IF i > Len(t)
    THEN IF cur = <<>> THEN <<>> ELSE <<cur>>
    ELSE IF ~IsSpace(t[i])
         THEN TokensFrom(t, i + 1, Append(cur, t[i]))
         ELSE (IF cur = <<>> THEN <<>> ELSE <<cur>>)
                 \o TokensFrom(t, i + 1, <<>>)

Split(t) == TokensFrom(t, 1, <<>>)

\* Mutant: the target is counted from the words of the word pattern.
EstimatedDuration_RegexWords(t) ==
    RMul(RDiv(Rat(Len(FindWords(t)), 1), Rat(150, 1)), Rat(60, 1))

\* estimated_duration = (len(text.split()) / 150.0) * 60.0
EstimatedDuration(t) ==
    RMul(RDiv(Rat(Len(Split(t)), 1), Rat(150, 1)), Rat(60, 1))

\* Mutant: the intensity is left out of the serialized frame.
SerializeFrame_NoIntensity(frame) ==
    [viseme_id   |-> frame.viseme_id,
     viseme_name |-> frame.viseme_name,
     image_path  |-> frame.image_path,
     start_time  |-> frame.start_time,
     duration    |-> frame.duration]

\* The dict built for one frame.
SerializeFrame(frame) ==
    [viseme_id   |-> frame.viseme_id,
     viseme_name |-> frame.viseme_name,
     image_path  |-> frame.image_path,
     start_time  |-> frame.start_time,
     duration    |-> frame.duration,
     intensity   |-> frame.intensity]

\* What generate_audio_base64 can hand back: None (no API key, or the
\* request failed), the encoding of an empty body, or encoded audio.  None
\* is the empty option.
AudioOutcomes == {<<>>, <<"">>, <<"SUQz">>}

\* `not audio_b64`
Falsy(audio_b64) == audio_b64 = <<>> \/ audio_b64[1] = ""

generate_audio_with_visemes(p2v, images, t, audio_b64) ==
    IF Falsy(audio_b64)
    THEN [NoResponse EXCEPT !.kind = "None"]
    ELSE LET estimated_duration == EstimatedDuration(t)
             got == create_viseme_timeline(p2v, images, t, estimated_duration)
         IN  IF got.raised
             THEN [NoResponse EXCEPT !.kind = "raised"]
             ELSE [kind |-> "dict",
                   audio |-> audio_b64[1],
                   viseme_frames |->
                       [i \in 1 .. Len(got.frames) |->
                           SerializeFrame(got.frames[i])],
                   estimated_duration |-> estimated_duration]

\* response = generate_audio_with_visemes(text), the speech service
\* answering with audio_b64.
GenerateAudioWithVisemes(audio_b64) ==
    /\ response' = generate_audio_with_visemes(phoneme_to_viseme,
                                               viseme_images, text, audio_b64)
    /\ op' = "generate_audio_with_visemes"
    /\ raised' = (response'.kind = "raised")
    /\ phoneme_to_viseme' =
           IF Falsy(audio_b64) THEN phoneme_to_viseme
           ELSE LookupEffect(phoneme_to_viseme, text_to_phonemes(text))
    /\ viseme_frames' = NoFrames
    /\ unscaled_frames' = NoFrames
    /\ scaled' = FALSE
    /\ current_time' = RZero
    /\ found' = 0
    /\ phonemes_out' = <<>>
    /\ UNCHANGED <<app_vars, heap, invocations, viseme_images, text, total_duration,
                   phonemes, calls, first_timeline>>

Next ==
    \/ TextToPhonemes
    \/ PhonemesToVisemes
    \/ TextToVisemes
    \/ CreateVisemeTimeline
    \/ \E t \in OtherTexts, d \in OtherDurations : OtherCreateVisemeTimeline(t, d)
    \/ \E t \in QueryTimes(viseme_frames) : GetVisemeForTime(t)
    \/ \E audio_b64 \in AudioOutcomes : GenerateAudioWithVisemes(audio_b64)

Spec == Init /\ [][Next]_vars

\* ------------------------------------------------ concurrent invocations
\* create_viseme_timeline run by several callers at once on the one global
\* viseme_mapper, each statement of its loops a step of its own.
MaxInvocations == 2

\* The (text, total_duration) pairs of the concurrent callers: one text
\* under two targets, a text with a pause under the target 0 and a text
\* without phonemes.
Requests ==
    {[text |-> <<"h", "i">>, total_duration |-> ROne],
     [text |-> <<"h", "i">>, total_duration |-> Rat(3, 2)],
     [text |-> <<"h", " ", "4">>, total_duration |-> RZero],
     [text |-> <<"4">>, total_duration |-> ROne]}

\* The variables of the single caller, which the concurrent callers leave
\* alone.
caller_vars ==
    <<text, total_duration, phonemes, phonemes_out, op, viseme_frames,
      unscaled_frames, scaled, current_time, found, raised, calls,
      first_timeline, response>>

\* A call that has been made and has not run a statement yet.
Called(request) ==
    [pc             |-> "called",
     text           |-> request.text,
     total_duration |-> request.total_duration,
     phonemes       |-> <<>>,
     viseme_frames  |-> <<>>,
     k              |-> 1,
     current_time   |-> RZero,
     scale_factor   |-> ROne]

InitConcurrent ==
    /\ phoneme_to_viseme = InitPhonemeToViseme
    /\ viseme_images = InitVisemeImages
    /\ heap = <<>>
    /\ invocations \in
           {[n \in 1 .. MaxInvocations |-> Called(request[n])] :
               request \in [1 .. MaxInvocations -> Requests]}
    /\ text = <<>>
    /\ total_duration = RZero
    /\ phonemes = <<>>
    /\ phonemes_out = <<>>
    /\ op = "init"
    /\ viseme_frames = NoFrames
    /\ unscaled_frames = NoFrames
    /\ scaled = FALSE
    /\ current_time = RZero
    /\ found = 0
    /\ raised = FALSE
    /\ calls = 0
    /\ first_timeline = NoFrames
    /\ response = NoResponse
    /\ AppIdle

\* Mutant: a frame equal to one created before is not created again; the
\* object that exists is handed out.
NewFrame_Interned(objects, frame) ==
    IF \E ref \in DOMAIN objects : objects[ref] = frame
    THEN [heap |-> objects,
          ref  |-> CHOOSE ref \in DOMAIN objects : objects[ref] = frame]
    ELSE [heap |-> Append(objects, frame), ref |-> Len(objects) + 1]

\* frame = VisemeFrame(...): a new object, with a reference no object
\* created before has.
NewFrame(objects, frame) ==
    [heap |-> Append(objects, frame), ref |-> Len(objects) + 1]

\* The frames a list of references stands for.
Deref(objects, refs) == [i \in 1 .. Len(refs) |-> objects[refs[i]]]

\* phonemes = self.text_to_phonemes(text), on the way into
\* phonemes_to_visemes: local data only.
ExtractPhonemes(n) ==
    /\ invocations[n].pc = "called"
    /\ invocations' =
           [invocations EXCEPT ![n] =
               [@ EXCEPT !.pc = "build",
                         !.phonemes = text_to_phonemes(invocations[n].text),
                         !.viseme_frames = <<>>,
                         !.current_time = RZero]]
    /\ UNCHANGED <<phoneme_to_viseme, viseme_images, heap, caller_vars, app_vars>>

\* One pass of the loop of phonemes_to_visemes: the lookups in the shared
\* tables, the new frame, the append and current_time += duration.
BuildFrame(n) ==
    LET self    == invocations[n]
        phoneme == self.phonemes[Len(self.viseme_frames) + 1]
        id      == VisemeIdOf(phoneme_to_viseme, phoneme)
        dur     == PhonemeDuration(phoneme)
        made    == NewFrame(heap,
                            Frame(id, VISEME_MAPPING[id].name,
                                  ImageOf(viseme_images, id),
                                  self.current_time, dur))
    IN  /\ self.pc = "build"
        /\ Len(self.viseme_frames) < Len(self.phonemes)
        /\ phoneme_to_viseme' = LookupEffect(phoneme_to_viseme, <<phoneme>>)
        /\ IF FrameRaises(viseme_images, id)
           THEN /\ invocations' = [invocations EXCEPT ![n].pc = "raised"]
                /\ heap' = heap
           ELSE /\ heap' = made.heap
                /\ invocations' =
                       [invocations EXCEPT ![n] =
                           [@ EXCEPT
                               !.viseme_frames = Append(@, made.ref),
                               !.current_time = RAdd(@, dur)]]
        /\ UNCHANGED <<viseme_images, caller_vars, app_vars>>

\* `if not viseme_frames: return []`
ReturnEmpty(n) ==
    /\ invocations[n].pc = "build"
    /\ Len(invocations[n].viseme_frames) = Len(invocations[n].phonemes)
    /\ invocations[n].viseme_frames = <<>>
    /\ invocations' = [invocations EXCEPT ![n].pc = "returned"]
    /\ UNCHANGED <<phoneme_to_viseme, viseme_images, heap, caller_vars, app_vars>>

\* viseme_duration = sum(...) over the frame objects as they are now, and
\* the scale factor from it.
SumDurations(n) ==
    LET self == invocations[n]
    IN  /\ self.pc = "build"
        /\ Len(self.viseme_frames) = Len(self.phonemes)
        /\ self.viseme_frames # <<>>
        /\ invocations' =
               [invocations EXCEPT ![n] =
                   [@ EXCEPT
                       !.pc = "scale",
                       !.k = 1,
                       !.scale_factor =
                           ScaleFactor(self.total_duration,
                                       VisemeDuration(
                                           Deref(heap, self.viseme_frames)))]]
        /\ UNCHANGED <<phoneme_to_viseme, viseme_images, heap, caller_vars, app_vars>>

\* One pass of the scaling loop: frame.duration *= scale_factor, written to
\* the frame object; after the last pass current_time = 0.0.
ScaleFrame(n) ==
    LET self == invocations[n]
        ref  == self.viseme_frames[self.k]
        last == self.k = Len(self.viseme_frames)
    IN  /\ self.pc = "scale"
        /\ heap' = [heap EXCEPT ![ref].duration = RMul(@, self.scale_factor)]
        /\ invocations' =
               [invocations EXCEPT ![n] =
                   [@ EXCEPT
                       !.pc = IF last THEN "start" ELSE "scale",
                       !.k = IF last THEN 1 ELSE @ + 1,
                       !.current_time = IF last THEN RZero ELSE @]]
        /\ UNCHANGED <<phoneme_to_viseme, viseme_images, caller_vars, app_vars>>

\* One pass of the start-time loop: frame.start_time = current_time and
\* current_time += frame.duration; after the last pass the list is returned.
SetStartTime(n) ==
    LET self == invocations[n]
        ref  == self.viseme_frames[self.k]
        last == self.k = Len(self.viseme_frames)
    IN  /\ self.pc = "start"
        /\ heap' = [heap EXCEPT ![ref].start_time = self.current_time]
        /\ invocations' =
               [invocations EXCEPT ![n] =
                   [@ EXCEPT
                       !.pc = IF last THEN "returned" ELSE "start",
                       !.k = IF last THEN @ ELSE @ + 1,
                       !.current_time = RAdd(@, heap[ref].duration)]]
        /\ UNCHANGED <<phoneme_to_viseme, viseme_images, caller_vars, app_vars>>

NextConcurrent ==
    \E n \in 1 .. MaxInvocations :
        \/ ExtractPhonemes(n)
        \/ BuildFrame(n)
        \/ ReturnEmpty(n)
        \/ SumDurations(n)
        \/ ScaleFrame(n)
        \/ SetStartTime(n)

SpecConcurrent == InitConcurrent /\ [][NextConcurrent]_vars

\* ------------------------------------------------------------ longer texts
\* text_to_phonemes alone, on texts long enough for three words.
MaxLongLen == 5

\* A consonant letter, a digit and a blank.
LongChars == {"h", "4", " "}

\* The upper-case form of a lower-case letter.
UpperChar(c) ==
    IF \E u \in DOMAIN UpperToLower : UpperToLower[u] = c
    THEN CHOOSE u \in DOMAIN UpperToLower : UpperToLower[u] = c
    ELSE c

\* Every dictionary word in lower case, capitalised and in upper case.
DictionaryTexts ==
    UNION {{w,
            [i \in 1 .. Len(w) |-> IF i = 1 THEN UpperChar(w[i]) ELSE w[i]],
            [i \in 1 .. Len(w) |-> UpperChar(w[i])]} :
              w \in DOMAIN word_phonemes}

LongTexts ==
    (UNION {[1 .. n -> LongChars] : n \in 0 .. MaxLongLen})
        \cup DictionaryTexts

InitLongText ==
    /\ phoneme_to_viseme = InitPhonemeToViseme
    /\ viseme_images = InitVisemeImages
    /\ text \in LongTexts
    /\ total_duration = RZero
    /\ phonemes = <<>>
    /\ op = "init"
    /\ phonemes_out = <<>>
    /\ viseme_frames = NoFrames
    /\ unscaled_frames = NoFrames
    /\ scaled = FALSE
    /\ current_time = RZero
    /\ found = 0
    /\ raised = FALSE
    /\ calls = 0
    /\ first_timeline = NoFrames
    /\ heap = <<>>
    /\ invocations = <<>>
    /\ response = NoResponse
    /\ AppIdle

NextLongText == TextToPhonemes

SpecLongText == InitLongText /\ [][NextLongText]_vars

\* ------------------------------------------------ texts sent to the voice
\* generate_audio_with_visemes alone, on texts in which the words of the
\* word pattern and the whitespace-separated tokens need not agree.
MaxAudioLen == 3

\* A letter, a digit, a blank and a punctuation mark.
AudioChars == {"h", "4", " ", "!"}

AudioTexts == UNION {[1 .. n -> AudioChars] : n \in 0 .. MaxAudioLen}

InitAudio ==
    /\ phoneme_to_viseme = InitPhonemeToViseme
    /\ viseme_images = InitVisemeImages
    /\ text \in AudioTexts
    /\ total_duration = RZero
    /\ phonemes = <<>>
    /\ op = "init"
    /\ phonemes_out = <<>>
    /\ viseme_frames = NoFrames
    /\ unscaled_frames = NoFrames
    /\ scaled = FALSE
    /\ current_time = RZero
    /\ found = 0
    /\ raised = FALSE
    /\ calls = 0
    /\ first_timeline = NoFrames
    /\ heap = <<>>
    /\ invocations = <<>>
    /\ response = NoResponse
    /\ AppIdle

NextAudio == \E audio_b64 \in AudioOutcomes : GenerateAudioWithVisemes(audio_b64)

SpecAudio == InitAudio /\ [][NextAudio]_vars

\* ------------------------------------------------------- the web application
\* The mapper and its callers while the web application is looked at.
mapper_vars ==
    <<phoneme_to_viseme, viseme_images, heap, invocations, caller_vars>>

MapperIdle ==
    /\ phoneme_to_viseme = InitPhonemeToViseme
    /\ viseme_images = InitVisemeImages
    /\ text = <<>>
    /\ total_duration = RZero
    /\ phonemes = <<>>
    /\ op = "init"
    /\ phonemes_out = <<>>
    /\ viseme_frames = NoFrames
    /\ unscaled_frames = NoFrames
    /\ scaled = FALSE
    /\ current_time = RZero
    /\ found = 0
    /\ raised = FALSE
    /\ calls = 0
    /\ first_timeline = NoFrames
    /\ heap = <<>>
    /\ invocations = <<>>
    /\ response = NoResponse

\* Browsers, each with a session of its own, and what each logs in as.
MaxClients == 2
Clients == 1 .. MaxClients
Usernames == <<"alice", "bob", "carol", "dave">>

\* /api/chat requests one client makes.
MaxChats == 1

\* The row get_or_create_user inserts for a new user, as the dict it
\* returns.
NewUser(id, username) ==
    [id |-> id, username |-> username, personality_summary |-> "new user",
     behavioral_notes |-> "none yet"]

HasUser(rows, username) == \E id \in DOMAIN rows : rows[id].username = username

\* get_or_create_user(username): the table afterwards and the dict
\* returned.
get_or_create_user(rows, username) ==
    IF HasUser(rows, username)
    THEN [users |-> rows,
          user  |-> rows[CHOOSE id \in DOMAIN rows : rows[id].username = username]]
    ELSE [users |-> Append(rows, NewUser(Len(rows) + 1, username)),
          user  |-> NewUser(Len(rows) + 1, username)]

\* The session the login view fills.
LoginSession(user) ==
    [user_id |-> user.id, username |-> user.username, avatar_state |-> "idle",
     voice_enabled |-> TRUE, fullscreen |-> FALSE]

\* `'user_id' in session`
HasSession(c) == "user_id" \in DOMAIN session[c]

\* `not current_user or current_user['id'] != session['user_id']`; the
\* global is None when the option is empty.
StaleUser(c) ==
    current_user = <<>> \/ current_user[1].id # session[c].user_id

\* What is kept of a request: the endpoint, the client, the status of the
\* response, whether the client had a session and which avatar state when
\* the request came in, and the state the body asked for, if any.
AnswerWith(endpoint, c, status, arg) ==
    [endpoint |-> endpoint, client |-> c, status |-> status,
     had_session |-> HasSession(c),
     before |-> IF "avatar_state" \in DOMAIN session[c]
                THEN session[c].avatar_state ELSE "absent",
     arg |-> arg]

Answer(endpoint, c, status) == AnswerWith(endpoint, c, status, "")

\* What get_ai_response may return: a reply alone, or with an updated
\* summary, or with updated behavioral notes.
AiOutputs ==
    {[updated_summary |-> <<>>, updated_behavioral_notes |-> <<>>],
     [updated_summary |-> <<"likes tea">>, updated_behavioral_notes |-> <<>>],
     [updated_summary |-> <<>>, updated_behavioral_notes |-> <<"terse">>]}

\* The kinds of message of a chat request: blank, a command, plain text.
MessageKinds == {"empty", "command", "regular"}

IdleHandler ==
    [pc |-> "idle", kind |-> "empty", user_id |-> 0,
     ai |-> [updated_summary |-> <<>>, updated_behavioral_notes |-> <<>>],
     chats |-> 0]

\* Every client has logged in, one after the other, each under its own
\* name; the global holds the user of the last login.
InitChat ==
    /\ MapperIdle
    /\ users = [c \in Clients |-> NewUser(c, Usernames[c])]
    /\ session = [c \in Clients |-> LoginSession(NewUser(c, Usernames[c]))]
    /\ current_user = <<NewUser(MaxClients, Usernames[MaxClients])>>
    /\ conversations = <<>>
    /\ user_updates = <<>>
    /\ handlers = [c \in Clients |-> IdleHandler]
    /\ clock = 0
    /\ history = NoHistory
    /\ last_request = NoRequest

\* The handler of client c ends with the given status.
Finish(c, endpoint, status) ==
    /\ handlers' = [handlers EXCEPT ![c].pc = "idle"]
    /\ last_request' = Answer(endpoint, c, status)

\* POST /api/chat arrives: the session check, and the body is parsed.
ApiChatStart(c, kind) ==
    /\ handlers[c].pc = "idle"
    /\ handlers[c].chats < MaxChats
    /\ IF HasSession(c)
       THEN /\ handlers' =
                   [handlers EXCEPT ![c] =
                       [@ EXCEPT !.pc = "check", !.kind = kind,
                                 !.user_id = session[c].user_id,
                                 !.chats = @ + 1]]
            /\ UNCHANGED last_request
       ELSE /\ handlers' = [handlers EXCEPT ![c].chats = @ + 1]
            /\ last_request' = Answer("api_chat", c, 400)
    /\ UNCHANGED <<current_user, session, users, conversations, user_updates,
                   clock, history, mapper_vars>>

\* `if not current_user or current_user['id'] != session['user_id']`
ApiChatCheckUser(c) ==
    /\ handlers[c].pc = "check"
    /\ handlers' =
           [handlers EXCEPT ![c].pc = IF StaleUser(c) THEN "fetch" ELSE "message"]
    /\ UNCHANGED <<current_user, session, users, conversations, user_updates,
                   clock, history, last_request, mapper_vars>>

\* `current_user = get_or_create_user(session['username'])`
ApiChatFetchUser(c) ==
    /\ handlers[c].pc = "fetch"
    /\ LET got == get_or_create_user(users, session[c].username)
       IN  /\ users' = got.users
           /\ current_user' = <<got.user>>
    /\ handlers' = [handlers EXCEPT ![c].pc = "message"]
    /\ UNCHANGED <<session, conversations, user_updates, clock, history,
                   last_request, mapper_vars>>

\* The message is looked at: a blank one is refused, a command is handled
\* by handle_command (which reads current_user['id'] for "/view"), plain
\* text goes on to the conversation.
ApiChatMessage(c) ==
    /\ handlers[c].pc = "message"
    /\ CASE handlers[c].kind = "empty" -> Finish(c, "api_chat", 400)
         [] handlers[c].kind = "command" ->
                Finish(c, "api_chat", IF current_user = <<>> THEN 500 ELSE 200)
         [] OTHER ->
                /\ handlers' = [handlers EXCEPT ![c].pc = "converse"]
                /\ UNCHANGED last_request
    /\ UNCHANGED <<current_user, session, users, conversations, user_updates,
                   clock, history, mapper_vars>>

\* get_recent_conversations, retrieve_relevant_memories and
\* get_ai_response, each given current_user['id'] or current_user as the
\* global is then; None makes the subscript raise.
ApiChatConverse(c, ai_output) ==
    /\ handlers[c].pc = "converse"
    /\ IF current_user = <<>>
       THEN Finish(c, "api_chat", 500)
       ELSE /\ handlers' =
                   [handlers EXCEPT ![c] =
                       [@ EXCEPT !.pc = "log_user", !.ai = ai_output]]
            /\ UNCHANGED last_request
    /\ UNCHANGED <<current_user, session, users, conversations, user_updates,
                   clock, history, mapper_vars>>

\* log_conversation(user_id, role, content) called by client c: the row
\* inserted, with the user the calling session belongs to.
LoggedRow(user_id, role, c) ==
    [id |-> Len(conversations) + 1, user_id |-> user_id, role |-> role,
     content |-> handlers[c].chats, timestamp |-> clock,
     session_user |-> handlers[c].user_id]

\* log_conversation(current_user['id'], 'user', user_input)
ApiChatLogUser(c) ==
    /\ handlers[c].pc = "log_user"
    /\ IF current_user = <<>>
       THEN /\ Finish(c, "api_chat", 500)
            /\ UNCHANGED conversations
       ELSE /\ conversations' =
                   Append(conversations,
                          LoggedRow(current_user[1].id, "user", c))
            /\ handlers' = [handlers EXCEPT ![c].pc = "log_model"]
            /\ UNCHANGED last_request
    /\ UNCHANGED <<current_user, session, users, user_updates, clock, history,
                   mapper_vars>>

\* log_conversation(current_user['id'], 'model', response_text)
ApiChatLogModel(c) ==
    /\ handlers[c].pc = "log_model"
    /\ IF current_user = <<>>
       THEN /\ Finish(c, "api_chat", 500)
            /\ UNCHANGED conversations
       ELSE /\ conversations' =
                   Append(conversations,
                          LoggedRow(current_user[1].id, "model", c))
            /\ handlers' = [handlers EXCEPT ![c].pc = "update"]
            /\ UNCHANGED last_request
    /\ UNCHANGED <<current_user, session, users, user_updates, clock, history,
                   mapper_vars>>

\* "Update user data": update_user(current_user['id'], field, value) for a
\* summary or notes that differ from those of current_user, the dict of
\* the global brought up to date, then the audio and the answer.
ApiChatUpdateUser(c) ==
    /\ handlers[c].pc = "update"
    /\ IF current_user = <<>>
       THEN /\ Finish(c, "api_chat", 500)
            /\ UNCHANGED <<current_user, users, user_updates>>
       ELSE LET user == current_user[1]
                ai   == handlers[c].ai
                new_summary ==
                    IF ai.updated_summary = <<>> THEN user.personality_summary
                    ELSE ai.updated_summary[1]
                new_notes ==
                    IF ai.updated_behavioral_notes = <<>>
                    THEN user.behavioral_notes
                    ELSE ai.updated_behavioral_notes[1]
                calls_made ==
                    (IF new_summary # user.personality_summary
                     THEN <<[user_id |-> user.id,
                             field |-> "personality_summary",
                             session_user |-> handlers[c].user_id]>>
                     ELSE <<>>)
                    \o (IF new_notes # user.behavioral_notes
                        THEN <<[user_id |-> user.id,
                                field |-> "behavioral_notes",
                                session_user |-> handlers[c].user_id]>>
                        ELSE <<>>)
                updated ==
                    [user EXCEPT !.personality_summary = new_summary,
                                 !.behavioral_notes = new_notes]
            IN  /\ user_updates' = user_updates \o calls_made
                /\ users' = [users EXCEPT ![user.id] = updated]
                /\ current_user' = <<updated>>
                /\ Finish(c, "api_chat", 200)
    /\ UNCHANGED <<session, conversations, clock, history, mapper_vars>>

\* POST /api/session/end of client c: session.clear(); current_user = None
EndSession(c) ==
    /\ handlers[c].pc = "idle"
    /\ last_request' = Answer("end_session", c, 200)
    /\ session' = [session EXCEPT ![c] = NoSession]
    /\ current_user' = <<>>
    /\ UNCHANGED <<users, conversations, user_updates, handlers, clock,
                   history, mapper_vars>>

\* GET /logout of client c: session.clear(); current_user = None
Logout(c) ==
    /\ handlers[c].pc = "idle"
    /\ last_request' = Answer("logout", c, 302)
    /\ session' = [session EXCEPT ![c] = NoSession]
    /\ current_user' = <<>>
    /\ UNCHANGED <<users, conversations, user_updates, handlers, clock,
                   history, mapper_vars>>

NextChat ==
    \E c \in Clients :
        \/ \E kind \in MessageKinds : ApiChatStart(c, kind)
        \/ ApiChatCheckUser(c)
        \/ ApiChatFetchUser(c)
        \/ ApiChatMessage(c)
        \/ \E ai_output \in AiOutputs : ApiChatConverse(c, ai_output)
        \/ ApiChatLogUser(c)
        \/ ApiChatLogModel(c)
        \/ ApiChatUpdateUser(c)
        \/ EndSession(c)
        \/ Logout(c)

SpecChat == InitChat /\ [][NextChat]_vars

\* ------------------------------------------------- the conversation table
\* log_conversation and get_recent_conversations on table conversations,
\* whose timestamp column defaults to CURRENT_TIMESTAMP, a whole number of
\* seconds.
MaxRows == 3
MaxClock == 1
UserIds == {1, 2}
Roles == {"user", "model"}
Limits == {1, 2, 30}

\* log_conversation(user_id, role, content): the table after the INSERT;
\* id is the next rowid and timestamp the second it is.
log_conversation(rows, user_id, role, content, now) ==
    Append(rows, [id |-> Len(rows) + 1, user_id |-> user_id, role |-> role,
                  content |-> content, timestamp |-> now])

\* The positions of the rows of the user.
RowsOf(rows, user_id) == {i \in DOMAIN rows : rows[i].user_id = user_id}

\* The orders `WHERE user_id = ? ORDER BY timestamp DESC` may deliver the
\* rows in: every arrangement of the user's rows with no timestamp before
\* a later one; SQL leaves the order of rows with equal timestamps open.
DescOrders(rows, user_id) ==
    LET mine == RowsOf(rows, user_id)
        n    == Cardinality(mine)
    IN  {order \in [1 .. n -> mine] :
            /\ \A i, j \in 1 .. n : i # j => order[i] # order[j]
            /\ \A i, j \in 1 .. n :
                   i < j => rows[order[i]].timestamp >= rows[order[j]].timestamp}

\* What the cursor may deliver.
Delivered(rows, user_id) == DescOrders(rows, user_id)

\* get_recent_conversations(user_id, limit), the cursor delivering the
\* rows in the given order: the first `limit` of them, reversed, each as
\* {"role": ..., "parts": [content]}.
get_recent_conversations(rows, order, limit) ==
    LET n == IF Len(order) < limit THEN Len(order) ELSE limit
    IN  [i \in 1 .. n |->
            [role |-> rows[order[n + 1 - i]].role,
             parts |-> <<rows[order[n + 1 - i]].content>>]]

InitHistory ==
    /\ MapperIdle
    /\ AppIdle

\* A second passes.
Tick ==
    /\ clock < MaxClock
    /\ clock' = clock + 1
    /\ UNCHANGED <<current_user, session, users, conversations, user_updates,
                   handlers, history, last_request, mapper_vars>>

\* log_conversation(user_id, role, content); the content is numbered so
\* that messages can be told apart.  A history fetched before is out of
\* date and dropped.
LogConversation(user_id, role) ==
    /\ Len(conversations) < MaxRows
    /\ conversations' =
           log_conversation(conversations, user_id, role,
                            Len(conversations) + 1, clock)
    /\ history' = NoHistory
    /\ UNCHANGED <<current_user, session, users, user_updates, handlers,
                   clock, last_request, mapper_vars>>

\* history = get_recent_conversations(user_id, limit)
GetRecentConversations(user_id, limit) ==
    /\ \E order \in Delivered(conversations, user_id) :
           history' =
               [called |-> TRUE, user_id |-> user_id, limit |-> limit,
                rows |-> get_recent_conversations(conversations, order, limit)]
    /\ UNCHANGED <<current_user, session, users, conversations, user_updates,
                   handlers, clock, last_request, mapper_vars>>

NextHistory ==
    \/ Tick
    \/ \E user_id \in UserIds, role \in Roles : LogConversation(user_id, role)
    \/ \E user_id \in UserIds, limit \in Limits :
           GetRecentConversations(user_id, limit)

SpecHistory == InitHistory /\ [][NextHistory]_vars

\* ------------------------------------------------- the endpoints, one by one
\* Every endpoint that reads or writes the session, each request handled
\* from arrival to response before the next.
ValidStates_AnyString ==
    {"idle", "listening", "thinking", "speaking", "dancing", "Idle", ""}

ValidStates == {"idle", "listening", "thinking", "speaking"}

\* States a client may ask for: the valid ones, and some that are not.
RequestedStates == ValidStates \cup {"dancing", "Idle", ""}

\* session[key] = value for each key of `values`; other keys stay.
SetKeys(s, values) ==
    [key \in (DOMAIN s) \cup (DOMAIN values) |->
        IF key \in DOMAIN values THEN values[key] ELSE s[key]]

\* The table of users and current_user after the refresh every handler
\* starts with: `if not current_user or current_user['id'] !=
\* session['user_id']: current_user = get_or_create_user(...)`.
Refreshed(c) ==
    IF StaleUser(c) THEN get_or_create_user(users, session[c].username)
    ELSE [users |-> users, user |-> current_user[1]]

\* A row log_conversation inserts for a request of client c.
SessionRow(rows, user_id, role, c) ==
    [id |-> Len(rows) + 1, user_id |-> user_id, role |-> role, content |-> 0,
     timestamp |-> clock, session_user |-> session[c].user_id]

\* "Process the message": both rows logged and the user brought up to
\* date, for current_user `user`; the tables and the global afterwards.
Conversed(rows_users, user, ai, c) ==
    LET new_summary ==
            IF ai.updated_summary = <<>> THEN user.personality_summary
            ELSE ai.updated_summary[1]
        new_notes ==
            IF ai.updated_behavioral_notes = <<>> THEN user.behavioral_notes
            ELSE ai.updated_behavioral_notes[1]
        updated ==
            [user EXCEPT !.personality_summary = new_summary,
                         !.behavioral_notes = new_notes]
        with_user ==
            Append(conversations,
                   SessionRow(conversations, user.id, "user", c))
    IN  [users |-> [rows_users EXCEPT ![user.id] = updated],
         user |-> updated,
         conversations |->
             Append(with_user, SessionRow(with_user, user.id, "model", c)),
         user_updates |->
             user_updates
                 \o (IF new_summary # user.personality_summary
                     THEN <<[user_id |-> user.id,
                             field |-> "personality_summary",
                             session_user |-> session[c].user_id]>>
                     ELSE <<>>)
                 \o (IF new_notes # user.behavioral_notes
                     THEN <<[user_id |-> user.id,
                             field |-> "behavioral_notes",
                             session_user |-> session[c].user_id]>>
                     ELSE <<>>)]

InitSession ==
    /\ MapperIdle
    /\ current_user = <<>>
    /\ session = [c \in Clients |-> NoSession]
    /\ users = <<>>
    /\ conversations = <<>>
    /\ user_updates = <<>>
    /\ handlers = [c \in Clients |-> IdleHandler]
    /\ clock = 0
    /\ history = NoHistory
    /\ last_request = NoRequest

\* The request was refused, or only read: nothing but last_request changes.
OnlyAnswer(endpoint, c, status, arg) ==
    /\ last_request' = AnswerWith(endpoint, c, status, arg)
    /\ UNCHANGED <<current_user, session, users, conversations, user_updates>>

\* The handler refreshed current_user and wrote the given session keys.
RefreshAndSet(endpoint, c, status, arg, values) ==
    /\ last_request' = AnswerWith(endpoint, c, status, arg)
    /\ users' = Refreshed(c).users
    /\ current_user' = <<Refreshed(c).user>>
    /\ session' = [session EXCEPT ![c] = SetKeys(@, values)]
    /\ UNCHANGED <<conversations, user_updates>>

\* The handler wrote the given session keys and nothing else.
SetOnly(endpoint, c, status, arg, values) ==
    /\ last_request' = AnswerWith(endpoint, c, status, arg)
    /\ session' = [session EXCEPT ![c] = SetKeys(@, values)]
    /\ UNCHANGED <<current_user, users, conversations, user_updates>>

\* The handler refreshed current_user, logged the exchange and wrote the
\* given session keys.
ConverseAndSet(endpoint, c, status, ai, values) ==
    LET got  == Refreshed(c)
        done == Conversed(got.users, got.user, ai, c)
    IN  /\ last_request' = AnswerWith(endpoint, c, status, "")
        /\ users' = done.users
        /\ current_user' = <<done.user>>
        /\ conversations' = done.conversations
        /\ user_updates' = done.user_updates
        /\ session' = [session EXCEPT ![c] = SetKeys(@, values)]

\* What stays as it is in every request of this part.
RequestFrame == UNCHANGED <<handlers, clock, history, mapper_vars>>

\* POST /login with a valid form, or POST /api/start_session with a name.
LoggedIn(endpoint, c, status) ==
    LET got == get_or_create_user(users, Usernames[c])
    IN  /\ last_request' = AnswerWith(endpoint, c, status, "")
        /\ users' = got.users
        /\ current_user' = <<got.user>>
        /\ session' = [session EXCEPT ![c] = SetKeys(@, LoginSession(got.user))]
        /\ UNCHANGED <<conversations, user_updates>>

Login(c) == LoggedIn("login", c, 302) /\ RequestFrame

\* POST /api/start_session
StartSession(c, named) ==
    /\ IF named THEN LoggedIn("start_session", c, 200)
       ELSE OnlyAnswer("start_session", c, 400, "")
    /\ RequestFrame

\* GET /chat: to the login page without a session.
ChatPage(c) ==
    /\ IF ~HasSession(c) THEN OnlyAnswer("chat", c, 302, "")
       ELSE RefreshAndSet("chat", c, 200, "", NoSession)
    /\ RequestFrame

\* POST /api/chat, from arrival to response.
ApiChat(c, kind, ai) ==
    /\ IF ~HasSession(c) THEN OnlyAnswer("api_chat", c, 400, "")
       ELSE IF kind = "empty"
       THEN RefreshAndSet("api_chat", c, 400, "", NoSession)
       ELSE IF kind = "command"
       THEN RefreshAndSet("api_chat", c, 200, "", NoSession)
       ELSE /\ Len(conversations) + 2 <= MaxRows
            /\ ConverseAndSet("api_chat", c, 200, ai, NoSession)
    /\ RequestFrame

\* POST /send_message: to the login page without a session, to the chat
\* page otherwise.
SendMessage(c, valid, ai) ==
    /\ IF ~HasSession(c) \/ ~valid THEN OnlyAnswer("send_message", c, 302, "")
       ELSE /\ Len(conversations) + 2 <= MaxRows
            /\ ConverseAndSet("send_message", c, 302, ai, NoSession)
    /\ RequestFrame

\* POST /api/avatar_state
SetAvatarState(c, state) ==
    /\ IF ~HasSession(c) THEN OnlyAnswer("set_avatar_state", c, 400, state)
       ELSE IF state \notin ValidStates
       THEN RefreshAndSet("set_avatar_state", c, 400, state, NoSession)
       ELSE RefreshAndSet("set_avatar_state", c, 200, state,
                          [avatar_state |-> state])
    /\ RequestFrame

\* GET /api/avatar_state: asks for no session.
GetAvatarState(c) ==
    /\ OnlyAnswer("get_avatar_state", c, 200, "")
    /\ RequestFrame

\* POST /api/toggle_voice
ToggleVoice(c, enabled) ==
    /\ IF ~HasSession(c) THEN OnlyAnswer("toggle_voice", c, 400, "")
       ELSE SetOnly("toggle_voice", c, 200, "", [voice_enabled |-> enabled])
    /\ RequestFrame

\* POST /api/audio/play
PlayAudio(c, has_text, audio_b64) ==
    /\ IF ~HasSession(c) THEN OnlyAnswer("play_audio", c, 400, "")
       ELSE IF ~has_text
       THEN RefreshAndSet("play_audio", c, 400, "", NoSession)
       ELSE IF Falsy(audio_b64)
       THEN RefreshAndSet("play_audio", c, 500, "", NoSession)
       ELSE RefreshAndSet("play_audio", c, 200, "",
                          [avatar_state |-> "speaking"])
    /\ RequestFrame

\* POST /api/audio/stop
StopAudio(c) ==
    /\ IF ~HasSession(c) THEN OnlyAnswer("stop_audio", c, 400, "")
       ELSE SetOnly("stop_audio", c, 200, "", [avatar_state |-> "idle"])
    /\ RequestFrame

\* POST /api/speech/start
StartSpeechRecognition(c) ==
    /\ IF ~HasSession(c) THEN OnlyAnswer("start_speech_recognition", c, 400, "")
       ELSE RefreshAndSet("start_speech_recognition", c, 200, "",
                          [speech_recording |-> TRUE,
                           avatar_state |-> "listening"])
    /\ RequestFrame

\* POST /api/speech/stop
StopSpeechRecognition(c) ==
    /\ IF ~HasSession(c) THEN OnlyAnswer("stop_speech_recognition", c, 400, "")
       ELSE SetOnly("stop_speech_recognition", c, 200, "",
                    [speech_recording |-> FALSE, avatar_state |-> "idle"])
    /\ RequestFrame

\* POST /api/speech/transcript
ProcessSpeechTranscript(c, has_transcript, ai, audio_b64) ==
    /\ IF ~HasSession(c)
       THEN OnlyAnswer("process_speech_transcript", c, 400, "")
       ELSE IF ~has_transcript
       THEN RefreshAndSet("process_speech_transcript", c, 400, "", NoSession)
       ELSE /\ Len(conversations) + 2 <= MaxRows
            /\ ConverseAndSet("process_speech_transcript", c, 200, ai,
                              [avatar_state |->
                                  IF Falsy(audio_b64) THEN "idle"
                                  ELSE "speaking"])
    /\ RequestFrame

\* POST /api/fullscreen/toggle
ToggleFullscreen(c, is_fullscreen) ==
    /\ IF ~HasSession(c) THEN OnlyAnswer("toggle_fullscreen", c, 400, "")
       ELSE SetOnly("toggle_fullscreen", c, 200, "",
                    [fullscreen |-> is_fullscreen])
    /\ RequestFrame

\* POST /api/message/append
AppendMessage(c, has_message, sender) ==
    /\ IF ~HasSession(c) THEN OnlyAnswer("append_message", c, 400, "")
       ELSE IF ~has_message
       THEN RefreshAndSet("append_message", c, 400, "", NoSession)
       ELSE IF sender # "user"
       THEN RefreshAndSet("append_message", c, 200, "", NoSession)
       ELSE /\ Len(conversations) + 1 <= MaxRows
            /\ last_request' = AnswerWith("append_message", c, 200, "")
            /\ users' = Refreshed(c).users
            /\ current_user' = <<Refreshed(c).user>>
            /\ conversations' =
                   Append(conversations,
                          SessionRow(conversations, Refreshed(c).user.id,
                                     "user", c))
            /\ UNCHANGED <<session, user_updates>>
    /\ RequestFrame

\* GET /api/session/status
GetSessionStatus(c) ==
    /\ IF ~HasSession(c) THEN OnlyAnswer("get_session_status", c, 400, "")
       ELSE RefreshAndSet("get_session_status", c, 200, "", NoSession)
    /\ RequestFrame

\* The one browser whose requests are followed; the other clients never
\* log in.
SessionClients == {1}

NextSession ==
    \E c \in SessionClients :
        \/ Login(c)
        \/ \E named \in BOOLEAN : StartSession(c, named)
        \/ ChatPage(c)
        \/ \E kind \in MessageKinds, ai \in AiOutputs : ApiChat(c, kind, ai)
        \/ \E valid \in BOOLEAN, ai \in AiOutputs : SendMessage(c, valid, ai)
        \/ \E state \in RequestedStates : SetAvatarState(c, state)
        \/ GetAvatarState(c)
        \/ \E enabled \in BOOLEAN : ToggleVoice(c, enabled)
        \/ \E has_text \in BOOLEAN, audio_b64 \in AudioOutcomes :
               PlayAudio(c, has_text, audio_b64)
        \/ StopAudio(c)
        \/ StartSpeechRecognition(c)
        \/ StopSpeechRecognition(c)
        \/ \E has_transcript \in BOOLEAN, ai \in AiOutputs,
              audio_b64 \in AudioOutcomes :
               ProcessSpeechTranscript(c, has_transcript, ai, audio_b64)
        \/ \E is_fullscreen \in BOOLEAN : ToggleFullscreen(c, is_fullscreen)
        \/ \E has_message \in BOOLEAN, sender \in {"user", "bot"} :
               AppendMessage(c, has_message, sender)
        \/ GetSessionStatus(c)
        \/ EndSession(c)
        \/ Logout(c)

SpecSession == InitSession /\ [][NextSession]_vars

\* ================================================================ claims
Positive(x) == RLt(RZero, x)

\* The end time of frame i.
EndTime(frames, i) == RAdd(frames[i].start_time, frames[i].duration)

\* The first frame starts at 0 and every other frame starts where the frame
\* before it ends.
Contiguous(frames) ==
    /\ frames # <<>> => frames[1].start_time = RZero
    /\ \A i \in 2 .. Len(frames) :
           frames[i].start_time = EndTime(frames, i - 1)

\* C1: for every text and every target duration, create_viseme_timeline
\* returns, and the frames it returns are contiguous and non-overlapping:
\* frame 1 starts at 0 and each later frame starts at the start time plus
\* the duration of the frame before it.
C1_TimelineContiguous ==
    op = "create_viseme_timeline" => ~raised /\ Contiguous(viseme_frames)

\* A rescaled timeline of three frames or more was returned.
C1_Witness ==
    /\ op = "create_viseme_timeline"
    /\ Len(viseme_frames) >= 3
    /\ viseme_frames # unscaled_frames
    /\ Contiguous(viseme_frames)

\* C2: for every text that yields at least one phoneme and every target
\* duration > 0, the durations of the frames create_viseme_timeline returns
\* add up to the target duration, so the last frame ends at the target.
C2_DurationsSumToTarget ==
    (/\ op = "create_viseme_timeline"
     /\ text_to_phonemes(text) # <<>>
     /\ Positive(total_duration))
        => /\ ~raised
           /\ viseme_frames # <<>>
           /\ VisemeDuration(viseme_frames) = total_duration
           /\ EndTime(viseme_frames, Len(viseme_frames)) = total_duration

\* A timeline of two frames or more whose unscaled total differs from the
\* positive target was returned.
C2_Witness ==
    /\ op = "create_viseme_timeline"
    /\ Len(viseme_frames) >= 2
    /\ Positive(total_duration)
    /\ VisemeDuration(unscaled_frames) # total_duration
    /\ VisemeDuration(viseme_frames) = total_duration

\* C3: create_viseme_timeline("hi", 1.0) returns two frames whose unscaled
\* durations are 0.08 and 0.15 (total 0.23), so frame 1 starts at 0 and
\* lasts 0.08/0.23 and frame 2 starts at 0.08/0.23 and lasts 0.15/0.23.
C3_HiTimeline ==
    (/\ op = "create_viseme_timeline"
     /\ text = <<"h", "i">>
     /\ total_duration = ROne)
        => /\ Len(viseme_frames) = 2
           /\ Durations(unscaled_frames) = <<Rat(8, 100), Rat(15, 100)>>
           /\ VisemeDuration(unscaled_frames) = Rat(23, 100)
           /\ viseme_frames[1].start_time = RZero
           /\ viseme_frames[1].duration = Rat(8, 23)
           /\ viseme_frames[2].start_time = Rat(8, 23)
           /\ viseme_frames[2].duration = Rat(15, 23)

\* What the call returns instead: "ay" is not in the vowel list of the
\* duration rule, so both frames get the consonant duration and half of the
\* target each.
C3_Observed ==
    /\ op = "create_viseme_timeline"
    /\ text = <<"h", "i">>
    /\ total_duration = ROne
    /\ Durations(unscaled_frames) = <<Rat(8, 100), Rat(8, 100)>>
    /\ Durations(viseme_frames) = <<Rat(1, 2), Rat(1, 2)>>
    /\ viseme_frames[2].start_time = Rat(1, 2)

\* current_time lies in the half-open interval of frame k.
InFrame(frames, k, t) ==
    RLe(frames[k].start_time, t) /\ RLt(t, EndTime(frames, k))

PositiveDurations(frames) ==
    \A i \in 1 .. Len(frames) : Positive(frames[i].duration)

\* The frame list queried is a timeline create_viseme_timeline built (the
\* scaling ran, or the list is empty) for a target duration > 0.
QueriedTimeline ==
    /\ op = "get_viseme_for_time"
    /\ Positive(total_duration)
    /\ scaled \/ viseme_frames = <<>>

\* C4: on a timeline built with a target duration > 0, get_viseme_for_time
\* returns None for every time below 0 and for every time at or past the
\* sum of the durations, and a frame for every time in between.
C4_NoneOutsideTimeline ==
    QueriedTimeline =>
        (found = 0 <=> \/ RLt(current_time, RZero)
                       \/ RLe(VisemeDuration(viseme_frames), current_time))

\* The time asked for is exactly the end of a timeline of two frames or
\* more, and None came back.
C4_Witness ==
    /\ QueriedTimeline
    /\ Len(viseme_frames) >= 2
    /\ current_time = VisemeDuration(viseme_frames)
    /\ found = 0

\* C5: on a contiguous frame list with positive durations,
\* get_viseme_for_time returns exactly the frame whose half-open interval
\* [start_time, start_time + duration) holds the time; a time equal to the
\* end of a frame that is not the last returns the frame after it.
C5_HalfOpenLookup ==
    (/\ op = "get_viseme_for_time"
     /\ Contiguous(viseme_frames)
     /\ PositiveDurations(viseme_frames))
        => /\ \A k \in 1 .. Len(viseme_frames) :
                  InFrame(viseme_frames, k, current_time) <=> found = k
           /\ \A k \in 1 .. Len(viseme_frames) - 1 :
                  current_time = EndTime(viseme_frames, k) => found = k + 1

\* The time asked for is the end of the first of several frames, and the
\* second frame came back.
C5_Witness ==
    /\ op = "get_viseme_for_time"
    /\ Len(viseme_frames) >= 2
    /\ PositiveDurations(viseme_frames)
    /\ current_time = EndTime(viseme_frames, 1)
    /\ found = 2

\* C6: create_viseme_timeline is deterministic: a later call with the same
\* text and target duration returns the frame list the first call returned,
\* whatever other calls were made on the shared mapper in between, and the
\* mapper's tables are as __init__ left them.
C6_RepeatedCallSameResult ==
    /\ (op = "create_viseme_timeline" /\ calls >= 2)
           => viseme_frames = first_timeline /\ ~raised
    /\ phoneme_to_viseme = InitPhonemeToViseme
    /\ viseme_images = InitVisemeImages

\* A second call returned a timeline of two frames or more.
C6_Witness ==
    /\ op = "create_viseme_timeline"
    /\ calls >= 2
    /\ Len(viseme_frames) >= 2
    /\ viseme_frames = first_timeline

\* The text has no word character (it is empty, or blanks and punctuation).
NoWords(t) == \A i \in 1 .. Len(t) : ~IsWordChar(t[i])

\* C7: for a text with zero words, text_to_phonemes returns the empty list
\* and create_viseme_timeline returns the empty frame list, for every
\* target duration, without scaling anything.
C7_NoWordsNoFrames ==
    NoWords(text) =>
        /\ op = "text_to_phonemes" => phonemes_out = <<>>
        /\ op = "create_viseme_timeline" =>
               ~raised /\ viseme_frames = <<>> /\ ~scaled

\* create_viseme_timeline returned the empty list for a text of blanks and
\* punctuation and a positive target.
C7_Witness ==
    /\ op = "create_viseme_timeline"
    /\ Len(text) >= 2
    /\ NoWords(text)
    /\ \E i \in 1 .. Len(text) : text[i] = "!"
    /\ Positive(total_duration)
    /\ viseme_frames = <<>>
    /\ ~scaled

\* The phonemes listed by some category of VISEME_MAPPING.
CategoryPhonemes(ids) ==
    UNION {Range(VISEME_MAPPING[id].phonemes) : id \in ids}

\* The categories that list the phoneme.
CategoriesOf(phoneme) ==
    {id \in VisemeIds : phoneme \in Range(VISEME_MAPPING[id].phonemes)}

\* C8: phonemes_to_visemes returns one frame per phoneme, in order: as many
\* frames as phonemes, frame i showing a category that lists phoneme i (or
\* Silence when none does) with the name and image of that category, and
\* adjacent frames of one viseme stay separate frames.
C8_OneFramePerPhoneme ==
    op = "phonemes_to_visemes" =>
        /\ ~raised
        /\ Len(viseme_frames) = Len(phonemes)
        /\ \A i \in 1 .. Len(phonemes) :
               /\ IF CategoriesOf(phonemes[i]) = {}
                  THEN viseme_frames[i].viseme_id = 0
                  ELSE viseme_frames[i].viseme_id \in CategoriesOf(phonemes[i])
               /\ viseme_frames[i].viseme_name =
                      VISEME_MAPPING[viseme_frames[i].viseme_id].name
               /\ viseme_frames[i].image_path =
                      InitVisemeImages[viseme_frames[i].viseme_id]

\* Two adjacent phonemes of one category came back as two frames.
C8_Witness ==
    /\ op = "phonemes_to_visemes"
    /\ Len(viseme_frames) = 2
    /\ Len(phonemes) = 2
    /\ phonemes[1] # phonemes[2]
    /\ viseme_frames[1].viseme_id = viseme_frames[2].viseme_id
    /\ viseme_frames[1].viseme_id # 0

\* C9: a phoneme symbol that no category lists ("h", "aw", "ey", any other
\* string) gets a frame with viseme_id 0 (Silence), and phonemes_to_visemes
\* does not raise.
C9_UnknownPhonemeIsSilence ==
    op \in {"phonemes_to_visemes", "text_to_visemes"} =>
        /\ ~raised
        /\ op = "phonemes_to_visemes" =>
               \A i \in 1 .. Len(phonemes) :
                   phonemes[i] \notin CategoryPhonemes(VisemeIds)
                       => /\ i <= Len(viseme_frames)
                          /\ viseme_frames[i].viseme_id = 0
                          /\ viseme_frames[i].viseme_name = "Silence"

\* A list holding a string that is no phoneme at all came back as a
\* Silence frame.
C9_Witness ==
    /\ op = "phonemes_to_visemes"
    /\ phonemes \in {<<"xyz">>, <<"aw">>, <<"ey">>, <<"">>}
    /\ ~raised
    /\ Len(viseme_frames) = 1
    /\ viseme_frames[1].viseme_id = 0

\* The categories the table names vowels (and the schwa).
VowelCategories == (10 .. 14) \cup (16 .. 18)

\* C10: phonemes_to_visemes gives every phoneme of a vowel category the
\* vowel duration 0.15, the token "sil" the silence duration 0.10 and every
\* other phoneme the consonant duration 0.08.
C10_DurationByClass ==
    op = "phonemes_to_visemes" =>
        /\ Len(viseme_frames) = Len(phonemes)
        /\ \A i \in 1 .. Len(phonemes) :
               viseme_frames[i].duration =
                   IF phonemes[i] \in CategoryPhonemes(VowelCategories)
                   THEN PHONEME_DURATIONS.vowels
                   ELSE IF phonemes[i] = "sil"
                        THEN PHONEME_DURATIONS.silence
                        ELSE PHONEME_DURATIONS.consonants

\* What the code does: the vowel "ay" of category 16 gets the consonant
\* duration.
C10_Observed ==
    /\ op = "phonemes_to_visemes"
    /\ phonemes = <<"ay">>
    /\ viseme_frames[1].viseme_id = 16
    /\ viseme_frames[1].duration = PHONEME_DURATIONS.consonants

\* C11: the scaling of create_viseme_timeline is a uniform linear rescale:
\* for any two frames i and j, duration_i * unscaled_j = duration_j *
\* unscaled_i, and the frames keep their order and their viseme_ids.
C11_UniformRescale ==
    (op = "create_viseme_timeline" /\ ~raised) =>
        /\ Len(viseme_frames) = Len(unscaled_frames)
        /\ \A i \in 1 .. Len(viseme_frames) :
               viseme_frames[i].viseme_id = unscaled_frames[i].viseme_id
        /\ \A i, j \in 1 .. Len(viseme_frames) :
               RMul(viseme_frames[i].duration, unscaled_frames[j].duration)
                   = RMul(viseme_frames[j].duration, unscaled_frames[i].duration)

\* A timeline was rescaled whose frames have different unscaled durations
\* and different visemes.
C11_Witness ==
    /\ op = "create_viseme_timeline"
    /\ Len(viseme_frames) >= 2
    /\ unscaled_frames[1].duration # unscaled_frames[2].duration
    /\ unscaled_frames[1].viseme_id # unscaled_frames[2].viseme_id
    /\ viseme_frames[1].duration # unscaled_frames[1].duration
    /\ Positive(viseme_frames[1].duration)

\* C12: with a target duration <= 0 and a text that yields phonemes,
\* create_viseme_timeline does not fail: it returns one frame per phoneme,
\* each duration the unscaled duration times target / unscaled total; all
\* durations and start times are 0 for target 0, and all durations are
\* negative for a negative target.
C12_NonPositiveTargetScales ==
    (/\ op = "create_viseme_timeline"
     /\ text_to_phonemes(text) # <<>>
     /\ ~Positive(total_duration))
        => /\ ~raised
           /\ Len(viseme_frames) = Len(text_to_phonemes(text))
           /\ \A i \in 1 .. Len(viseme_frames) :
                  /\ viseme_frames[i].duration =
                         RDiv(RMul(unscaled_frames[i].duration, total_duration),
                              VisemeDuration(unscaled_frames))
                  /\ total_duration = RZero =>
                         /\ viseme_frames[i].duration = RZero
                         /\ viseme_frames[i].start_time = RZero
                  /\ RLt(total_duration, RZero) =>
                         RLt(viseme_frames[i].duration, RZero)

\* A timeline of two frames or more came back for a negative target, its
\* second frame starting before 0.
C12_Witness ==
    /\ op = "create_viseme_timeline"
    /\ RLt(total_duration, RZero)
    /\ Len(viseme_frames) >= 2
    /\ RLt(viseme_frames[2].start_time, RZero)
    /\ RLt(viseme_frames[1].duration, RZero)

\* The input of the call is degenerate: the text yields no phoneme, or the
\* target duration is zero or negative.  (The third kind, a non-empty frame
\* list whose unscaled total is zero, does not exist: every class constant
\* is positive.)
DegenerateInput ==
    text_to_phonemes(text) = <<>> \/ ~Positive(total_duration)

\* C13 as stated: for degenerate input create_viseme_timeline returns the
\* empty frame list or the unscaled frames, and never signals failure.
C13_EmptyOrUnscaled ==
    (op = "create_viseme_timeline" /\ DegenerateInput) =>
        /\ ~raised
        /\ viseme_frames = <<>> \/ viseme_frames = unscaled_frames

\* C13 as amended: for degenerate input create_viseme_timeline never
\* signals failure; it returns the empty frame list when the text yields no
\* phoneme, and otherwise (target <= 0) frames that are rescaled, not the
\* unscaled ones: their durations add up to the target, and the unscaled
\* total they were divided by is positive.
C13_EmptyOrRescaled ==
    (op = "create_viseme_timeline" /\ DegenerateInput) =>
        /\ ~raised
        /\ IF text_to_phonemes(text) = <<>>
           THEN viseme_frames = <<>> /\ ~scaled
           ELSE /\ scaled
                /\ viseme_frames # <<>>
                /\ viseme_frames # unscaled_frames
                /\ Positive(VisemeDuration(unscaled_frames))
                /\ VisemeDuration(viseme_frames) = total_duration

\* Frames of duration 0 came back for a text with phonemes and target 0.
C13_Witness ==
    /\ op = "create_viseme_timeline"
    /\ total_duration = RZero
    /\ Len(viseme_frames) >= 2
    /\ Positive(unscaled_frames[1].duration)
    /\ viseme_frames[1].duration = RZero

NonNegative(x) == RLe(RZero, x)

WellTimed(frames) ==
    \A i \in 1 .. Len(frames) :
        NonNegative(frames[i].start_time) /\ Positive(frames[i].duration)

\* C14 as stated: every frame of every timeline create_viseme_timeline
\* returns, for every text and every target duration, has start_time >= 0
\* and duration > 0.
C14_WellTimedForEveryTarget ==
    op = "create_viseme_timeline" => WellTimed(viseme_frames)

\* C14 as amended: every frame of every timeline create_viseme_timeline
\* returns for a target duration > 0 has start_time >= 0 and duration > 0.
C14_WellTimedForPositiveTarget ==
    (op = "create_viseme_timeline" /\ Positive(total_duration)) =>
        ~raised /\ WellTimed(viseme_frames)

\* A timeline with a Silence frame between two others came back for a
\* positive target.
C14_Witness ==
    /\ op = "create_viseme_timeline"
    /\ Positive(total_duration)
    /\ Len(viseme_frames) >= 3
    /\ text_to_phonemes(text)[2] = "sil"
    /\ WellTimed(viseme_frames)

\* The text is one word that the dictionary does not hold, so it goes
\* through the letter fallback.
OneFallbackWord(t) ==
    /\ t # <<>>
    /\ \A i \in 1 .. Len(t) : IsWordChar(t[i])
    /\ Lower(t) \notin DOMAIN word_phonemes

HasTableEntry(c) == c \in (DOMAIN vowel_map) \cup (DOMAIN consonant_map)

TableEntry(c) == IF c \in DOMAIN vowel_map THEN vowel_map[c] ELSE consonant_map[c]

\* C15 as stated: in the letter fallback every character with no entry in
\* the vowel or consonant table appends one "sil"; so a single fallback
\* word yields one phoneme per character, "sil" for a character without an
\* entry (the word's own marker being the one that is stripped).
C15_SilencePerUnknownChar ==
    (op = "text_to_phonemes" /\ OneFallbackWord(text)) =>
        phonemes_out =
            [i \in 1 .. Len(text) |->
                IF HasTableEntry(Lower(text)[i])
                THEN TableEntry(Lower(text)[i]) ELSE "sil"]

\* C15 as amended: in the letter fallback a character with no entry in the
\* vowel or consonant table appends nothing; a single fallback word yields
\* the table entries of its letters, in order, and no "sil".
C15_NothingPerUnknownChar ==
    (op = "text_to_phonemes" /\ OneFallbackWord(text)) =>
        LET letters == SelectSeq(Lower(text), HasTableEntry)
        IN  /\ phonemes_out = [i \in 1 .. Len(letters) |-> TableEntry(letters[i])]
            /\ \A i \in 1 .. Len(phonemes_out) : phonemes_out[i] # "sil"

\* A fallback word with a digit between two letters yielded the two
\* letters' phonemes only.
C15_Witness ==
    /\ op = "text_to_phonemes"
    /\ OneFallbackWord(text)
    /\ Len(text) = 3
    /\ text[2] = "4"
    /\ Len(phonemes_out) = 2

\* The phoneme group of one word: its dictionary entry, or what its
\* letters append.
GroupOf(word) ==
    IF word \in DOMAIN word_phonemes THEN word_phonemes[word]
    ELSE LetterPhonemes(word)

\* group(w1), sil, group(w2), sil, ..., group(wn).
RECURSIVE GroupsJoinedBySilence(_)
GroupsJoinedBySilence(words) ==
    IF words = <<>> THEN <<>>
    ELSE IF Len(words) = 1 THEN GroupOf(words[1])
    ELSE GroupOf(words[1]) \o <<"sil">> \o GroupsJoinedBySilence(Tail(words))

\* C16: for text of at least one word, text_to_phonemes returns the words'
\* phoneme groups in word order with one "sil" between consecutive groups
\* and no marker after the last word's group.
C16_GroupsJoinedBySilence ==
    (op = "text_to_phonemes" /\ FindWords(Lower(text)) # <<>>) =>
        phonemes_out = GroupsJoinedBySilence(FindWords(Lower(text)))

\* A text of two words, the first with a phoneme and the second without,
\* was converted: the marker of the first word stays.
C16_Witness ==
    /\ op = "text_to_phonemes"
    /\ Len(FindWords(Lower(text))) = 2
    /\ GroupOf(FindWords(Lower(text))[1]) # <<>>
    /\ GroupOf(FindWords(Lower(text))[2]) = <<>>
    /\ Len(phonemes_out) = Len(GroupOf(FindWords(Lower(text))[1])) + 1

\* No character of the word has a vowel or consonant table entry.
Unrecognized(word) == \A i \in 1 .. Len(word) : ~HasTableEntry(word[i])

SilenceCount(phs) == Cardinality({i \in 1 .. Len(phs) : phs[i] = "sil"})

LastRegistered(ids) == CHOOSE id \in ids : \A other \in ids : other <= id

\* C18: the reverse lookup of the mapper holds exactly the phonemes the
\* category table lists, each mapped to one category id, the highest of the
\* categories that list it: "y" to 9, "e" and "eh" to 16, "o" to 17, "er"
\* and "uh" to 18; a frame built for such a phoneme shows that category.
C18_LastRegisteredWins ==
    /\ DOMAIN phoneme_to_viseme = CategoryPhonemes(VisemeIds)
    /\ \A p \in DOMAIN phoneme_to_viseme :
           /\ phoneme_to_viseme[p] \in VisemeIds
           /\ phoneme_to_viseme[p] = LastRegistered(CategoriesOf(p))
    /\ phoneme_to_viseme["y"] = 9
    /\ phoneme_to_viseme["e"] = 16
    /\ phoneme_to_viseme["eh"] = 16
    /\ phoneme_to_viseme["o"] = 17
    /\ phoneme_to_viseme["er"] = 18
    /\ phoneme_to_viseme["uh"] = 18
    /\ (op = "phonemes_to_visemes" /\ ~raised) =>
           \A i \in 1 .. Len(viseme_frames) :
               phonemes[i] \in CategoryPhonemes(VisemeIds) =>
                   viseme_frames[i].viseme_id = LastRegistered(CategoriesOf(phonemes[i]))

\* A frame was built for "y", which categories 5 and 9 both list, and it
\* shows category 9.
C18_Witness ==
    /\ op = "phonemes_to_visemes"
    /\ phonemes = <<"y">>
    /\ Cardinality(CategoriesOf("y")) = 2
    /\ Len(viseme_frames) = 1
    /\ viseme_frames[1].viseme_id = 9

\* C20: the output of text_to_phonemes never ends with the silence marker,
\* whatever the text, a text whose last word has only unrecognized
\* characters included.
C20_NeverEndsWithSilence ==
    op = "text_to_phonemes" =>
        (phonemes_out = <<>> \/ phonemes_out[Len(phonemes_out)] # "sil")

\* What the code returns for a letter word followed by a digit word: the
\* digit word's marker is removed and the marker of the word before it ends
\* the output.
C20_Observed ==
    /\ op = "text_to_phonemes"
    /\ text = <<"h", " ", "4">>
    /\ phonemes_out = <<"h", "sil">>

\* What create_viseme_timeline returns for the request when it runs alone
\* on a mapper as constructed.
Alone(invocation) ==
    create_viseme_timeline(InitPhonemeToViseme, InitVisemeImages,
                           invocation.text, invocation.total_duration)

\* The two reference lists have no object in common.
Disjoint(refs, others) == Range(refs) \cap Range(others) = {}

\* C19: create_viseme_timeline invocations interleaved statement by
\* statement on the shared mapper each return what they return when run
\* alone; no invocation changes phoneme_to_viseme or viseme_images (the
\* class tables are never assigned); and no frame object belongs to the
\* frame lists of two invocations, nor twice to one.
C19_InterleavedAsAlone ==
    /\ phoneme_to_viseme = InitPhonemeToViseme
    /\ viseme_images = InitVisemeImages
    /\ \A n \in DOMAIN invocations :
           /\ invocations[n].pc # "raised"
           /\ invocations[n].pc = "returned" =>
                  /\ ~Alone(invocations[n]).raised
                  /\ Deref(heap, invocations[n].viseme_frames)
                         = Alone(invocations[n]).frames
           /\ \A i, j \in 1 .. Len(invocations[n].viseme_frames) :
                  i # j => invocations[n].viseme_frames[i]
                               # invocations[n].viseme_frames[j]
    /\ \A n, m \in DOMAIN invocations :
           n # m => Disjoint(invocations[n].viseme_frames,
                             invocations[m].viseme_frames)

\* Two invocations for the same text under different targets have both
\* returned, and the order of their frame objects on the heap shows that
\* their loops alternated.
C19_Witness ==
    /\ Len(invocations) >= 2
    /\ invocations[1].pc = "returned"
    /\ invocations[2].pc = "returned"
    /\ invocations[1].text = invocations[2].text
    /\ invocations[1].total_duration # invocations[2].total_duration
    /\ invocations[1].viseme_frames = <<1, 3>>
    /\ invocations[2].viseme_frames = <<2, 4>>

\* C21: the output of text_to_phonemes never holds two silence markers in
\* a row, whatever the text, a text with a digits-only word between two
\* other words included.
C21_NoDoublePause ==
    op = "text_to_phonemes" =>
        \A i \in 1 .. Len(phonemes_out) - 1 :
            ~(phonemes_out[i] = "sil" /\ phonemes_out[i + 1] = "sil")

\* What the code returns for a digit word between two letter words: the
\* marker of the first word and the marker of the digit word, side by side.
C21_Observed ==
    /\ op = "text_to_phonemes"
    /\ text = <<"h", " ", "4", " ", "h">>
    /\ phonemes_out = <<"h", "sil", "sil", "h">>

\* The text is the word w with each letter in either case.
SameWordIgnoringCase(t, w) ==
    /\ Len(t) = Len(w)
    /\ \A i \in 1 .. Len(t) : t[i] = w[i] \/ t[i] = UpperChar(w[i])

\* C22: text_to_phonemes lower-cases its input and the dictionary comes
\* before the letter fallback: a text that is a dictionary word in any
\* letter case yields the dictionary's phonemes for it verbatim ("hi" gives
\* h, ay and "hello" gives h, eh, l, ow), and a one-word text that is no
\* dictionary word yields the table entries of its letters.
C22_DictionaryBeforeLetters ==
    op = "text_to_phonemes" =>
        /\ \A w \in DOMAIN word_phonemes :
               SameWordIgnoringCase(text, w) => phonemes_out = word_phonemes[w]
        /\ SameWordIgnoringCase(text, <<"h", "i">>) =>
               phonemes_out = <<"h", "ay">>
        /\ SameWordIgnoringCase(text, <<"h", "e", "l", "l", "o">>) =>
               phonemes_out = <<"h", "eh", "l", "ow">>
        /\ (/\ text # <<>>
            /\ \A i \in 1 .. Len(text) : IsWordChar(text[i])
            /\ ~\E w \in DOMAIN word_phonemes : SameWordIgnoringCase(text, w)) =>
               LET letters ==
                       SelectSeq([i \in 1 .. Len(text) |->
                                     IF text[i] \in DOMAIN UpperToLower
                                     THEN UpperToLower[text[i]] ELSE text[i]],
                                 HasTableEntry)
               IN  phonemes_out =
                       [i \in 1 .. Len(letters) |-> TableEntry(letters[i])]

\* "Hello", capitalised, was converted to the dictionary's phonemes, which
\* are not what its letters spell.
C22_Witness ==
    /\ op = "text_to_phonemes"
    /\ text = <<"H", "e", "l", "l", "o">>
    /\ phonemes_out = <<"h", "eh", "l", "ow">>
    /\ phonemes_out # LetterPhonemes(<<"h", "e", "l", "l", "o">>)

FrameFields ==
    {"viseme_id", "viseme_name", "image_path", "start_time", "duration",
     "intensity"}

\* The frame shows a category of the table under the name and the image
\* registered for it.
RegisteredFrame(frame) ==
    /\ frame.viseme_id \in DOMAIN VISEME_MAPPING
    /\ frame.viseme_id \in DOMAIN viseme_images
    /\ frame.viseme_name = VISEME_MAPPING[frame.viseme_id].name
    /\ frame.image_path = viseme_images[frame.viseme_id]

\* C23: every frame phonemes_to_visemes produces has a viseme_id that is a
\* key of the category table and carries the name and the image registered
\* for that id (no lookup fails, the silence image is never substituted);
\* generate_audio_with_visemes serializes the frames of the timeline in
\* their order, each with the six fields viseme_id, viseme_name,
\* image_path, start_time, duration and intensity.
C23_RegisteredAndSerialized ==
    /\ op = "phonemes_to_visemes" =>
           /\ ~raised
           /\ Len(viseme_frames) = Len(phonemes)
           /\ \A i \in 1 .. Len(viseme_frames) : RegisteredFrame(viseme_frames[i])
    /\ op = "generate_audio_with_visemes" =>
           /\ response.kind \in {"None", "dict"}
           /\ response.kind = "dict" =>
                  LET timeline ==
                          create_viseme_timeline(
                              phoneme_to_viseme, viseme_images, text,
                              response.estimated_duration).frames
                  IN  /\ Len(response.viseme_frames) = Len(timeline)
                      /\ \A i \in 1 .. Len(timeline) :
                             /\ DOMAIN response.viseme_frames[i] = FrameFields
                             /\ \A f \in FrameFields :
                                    response.viseme_frames[i][f] = timeline[i][f]
                             /\ RegisteredFrame(response.viseme_frames[i])

\* generate_audio_with_visemes returned a dict with two serialized frames
\* of different categories.
C23_Witness ==
    /\ op = "generate_audio_with_visemes"
    /\ response.kind = "dict"
    /\ Len(response.viseme_frames) = 2
    /\ response.viseme_frames[1].viseme_id # response.viseme_frames[2].viseme_id
    /\ response.viseme_frames[2].start_time # RZero

\* Totals that are not positive.
NonPositiveTotals == {Rat(-1, 1), Rat(-1, 4), RZero}

\* C24: create_viseme_timeline never divides by a total that is not
\* positive: the unscaled durations of a non-empty frame list sum to more
\* than 0; an empty list is returned as it is, without scaling; and for a
\* total of 0 or less the scale factor is 1, which leaves every duration of
\* the frames as it was.
C24_NoDivisionByNonPositive ==
    (op = "create_viseme_timeline" /\ ~raised) =>
        /\ unscaled_frames # <<>> =>
               /\ Positive(VisemeDuration(unscaled_frames))
               /\ scaled
        /\ unscaled_frames = <<>> => (viseme_frames = <<>> /\ ~scaled)
        /\ \A total \in NonPositiveTotals :
               /\ ScaleFactor(total_duration, total) = ROne
               /\ Durations(ScaleDurations(unscaled_frames,
                                           ScaleFactor(total_duration, total)))
                      = Durations(unscaled_frames)

\* A timeline of two frames was built for a target that is not the
\* unscaled total: the division took place, by a positive total.
C24_Witness ==
    /\ op = "create_viseme_timeline"
    /\ ~raised
    /\ Len(unscaled_frames) = 2
    /\ Positive(VisemeDuration(unscaled_frames))
    /\ total_duration # VisemeDuration(unscaled_frames)
    /\ Durations(viseme_frames) # Durations(unscaled_frames)

\* C25: when generate_audio_with_visemes returns a timeline that is not
\* empty, the estimated duration, 0.4 seconds for each whitespace-separated
\* token of the text, is above 0; every serialized frame then has a
\* duration above 0 and a start time of 0 or more, and the durations sum to
\* the estimated duration.  The number of tokens and the number of words
\* of the word pattern may differ.
C25_PositiveEstimate ==
    (op = "generate_audio_with_visemes" /\ response.kind = "dict") =>
        /\ response.estimated_duration
               = RMul(Rat(2, 5), Rat(Len(Split(text)), 1))
        /\ response.viseme_frames # <<>> =>
               /\ Len(Split(text)) >= 1
               /\ Positive(response.estimated_duration)
               /\ \A i \in 1 .. Len(response.viseme_frames) :
                      /\ Positive(response.viseme_frames[i].duration)
                      /\ RLe(RZero, response.viseme_frames[i].start_time)
               /\ VisemeDuration(response.viseme_frames)
                      = response.estimated_duration

\* A timeline came back for a text of one token and two words.
C25_Witness ==
    /\ op = "generate_audio_with_visemes"
    /\ response.kind = "dict"
    /\ Len(Split(text)) = 1
    /\ Len(FindWords(Lower(text))) = 2
    /\ Len(response.viseme_frames) = 3
    /\ response.estimated_duration = Rat(2, 5)

\* C26: every conversation row and every update_user call of an /api/chat
\* request in the regular-conversation branch carries the user id of the
\* session that made the request, also when requests of other sessions, or
\* another session's /api/session/end or /logout, run in between.
C26_RowsUnderSessionUser ==
    /\ \A i \in 1 .. Len(conversations) :
           conversations[i].user_id = conversations[i].session_user
    /\ \A i \in 1 .. Len(user_updates) :
           user_updates[i].user_id = user_updates[i].session_user

\* What the code does when another session's request replaces the global
\* between the check and the logging: the message of client 1 is stored
\* under the user of client 2.
C26_Observed ==
    /\ Len(conversations) >= 1
    /\ conversations[1].session_user = 1
    /\ conversations[1].user_id = 2
    /\ conversations[1].role = "user"

\* The contents of the last n messages logged for the user, oldest first.
RECURSIVE LoggedContents(_, _)
LoggedContents(rows, user_id) ==
    IF rows = <<>> THEN <<>>
    ELSE LoggedContents(SubSeq(rows, 1, Len(rows) - 1), user_id)
             \o (IF rows[Len(rows)].user_id = user_id
                 THEN <<rows[Len(rows)].content>> ELSE <<>>)

LastLogged(rows, user_id, n) ==
    LET all == LoggedContents(rows, user_id)
    IN  SubSeq(all, IF Len(all) > n THEN Len(all) - n + 1 ELSE 1, Len(all))

\* C27: get_recent_conversations(user_id, limit) returns the last `limit`
\* messages logged for the user in the order they were logged, oldest
\* first; a user message logged just before the model's reply comes before
\* that reply, also when both rows carry the same timestamp.
C27_HistoryInLoggedOrder ==
    history.called =>
        [i \in 1 .. Len(history.rows) |-> history.rows[i].parts[1]]
            = LastLogged(conversations, history.user_id, history.limit)

\* What the code can return when a message and its reply are logged within
\* one second: the reply first.
C27_Observed ==
    /\ history.called
    /\ Len(conversations) = 2
    /\ conversations[1].role = "user"
    /\ conversations[2].role = "model"
    /\ conversations[1].user_id = conversations[2].user_id
    /\ conversations[1].timestamp = conversations[2].timestamp
    /\ history.user_id = conversations[1].user_id
    /\ Len(history.rows) = 2
    /\ history.rows[1].role = "model"
    /\ history.rows[2].role = "user"

\* ---------------------------------------------------------------------- C28
\* The four avatar states the claim names.
AvatarStates == {"idle", "listening", "thinking", "speaking"}

\* The JSON endpoints that ask for a session before anything else.
ApiSessionEndpoints ==
    {"api_chat", "set_avatar_state", "toggle_voice", "play_audio",
     "stop_audio", "start_speech_recognition", "stop_speech_recognition",
     "process_speech_transcript", "toggle_fullscreen", "append_message",
     "get_session_status"}

\* The pages that ask for a session before anything else.
PageSessionEndpoints == {"chat", "send_message"}

\* The avatar state the client of the last request has now.
AvatarStateNow ==
    IF last_request.client \in Clients
       /\ "avatar_state" \in DOMAIN session[last_request.client]
    THEN session[last_request.client].avatar_state ELSE "absent"

\* A stored avatar state is always one of the four.
StoredStateValid ==
    \A c \in Clients :
        "avatar_state" \in DOMAIN session[c]
            => session[c].avatar_state \in AvatarStates

\* POST /api/avatar_state with another value: 400, stored state as before.
InvalidStateRefused ==
    (/\ last_request.endpoint = "set_avatar_state"
     /\ last_request.arg \notin AvatarStates)
        => /\ last_request.status = 400
           /\ AvatarStateNow = last_request.before

\* The last request came without a session to one of `endpoints`: it got
\* `status` and avatar_state was not written.
RefusedWithoutSession(endpoints, status) ==
    (/\ last_request.endpoint \in endpoints
     /\ ~last_request.had_session)
        => /\ last_request.status = status
           /\ AvatarStateNow = last_request.before

\* C28 (as amended): after any sequence of endpoint calls on a session, a
\* stored avatar_state is one of 'idle', 'listening', 'thinking',
\* 'speaking'; POST /api/avatar_state with any other value returns 400 and
\* leaves the stored state as it was; without a session every JSON endpoint
\* that requires one returns 400 and the two pages that require one (/chat,
\* /send_message) redirect to the login page with 302, none of them writing
\* avatar_state.
C28_ValidStateAndRefusal ==
    /\ StoredStateValid
    /\ InvalidStateRefused
    /\ RefusedWithoutSession(ApiSessionEndpoints, 400)
    /\ RefusedWithoutSession(PageSessionEndpoints, 302)

\* C28, witness: with 'listening' stored, a request for the state 'dancing'
\* was refused with 400 and 'listening' is still stored.
C28_Witness ==
    /\ last_request.endpoint = "set_avatar_state"
    /\ last_request.arg = "dancing"
    /\ last_request.had_session
    /\ last_request.status = 400
    /\ last_request.before = "listening"
    /\ AvatarStateNow = "listening"

\* C28, second case reached: a request without a session to a JSON endpoint
\* that writes avatar_state was refused.
C28_RefusedWitness ==
    /\ last_request.endpoint = "stop_audio"
    /\ ~last_request.had_session
    /\ last_request.status = 400
    /\ AvatarStateNow = "absent"

\* C28 (as stated): as above, but every endpoint that requires a session,
\* the two pages included, returns 400 without one.
C28_EveryEndpointAnswers400 ==
    /\ StoredStateValid
    /\ InvalidStateRefused
    /\ RefusedWithoutSession(ApiSessionEndpoints \cup PageSessionEndpoints, 400)
====
